---- MODULE Spec2Model ----
(***************************************************************************)
(* A model of the Helm renderer of k8s-manifest-kit/renderer-helm (pkg).    *)
(*                                                                         *)
(*   SpecLoad : goroutines calling sourceHolder.LoadChart concurrently,    *)
(*              one step per lock operation and collaborator call.         *)
(*   SpecNew  : New validating the sources it is given.                    *)
(*   Spec     : Process calls on a renderer, one step per collaborator     *)
(*              call of processSingle and of Process.                      *)
(***************************************************************************)
EXTENDS Integers, Sequences, FiniteSets, TLC

\* nil: of a chart pointer, of a goroutine holding a lock, of an error, and the
\* empty string
NoChart == 0
NoGoroutine == 0
NoError == <<>>
NoStr == <<>>

(***************************************************************************)
(* Bounds of the model.                                                    *)
(***************************************************************************)
NumGoroutines == 2
MaxLoadCalls == 3

Goroutines == 1..NumGoroutines
\* The load model is of one holder under concurrent calls.
LoadHolders == {1}

VARIABLES
    sources,     \* Renderer.sources[i].Source: the configuration of holder i
    chart,       \* chart[i]: sourceHolder.chart, NoChart or the loaded chart object
    heap,        \* number of chart objects loader.Load has allocated so far
    mu,          \* mu[i]: the holder's RWMutex, [writer, readers]
    pc,          \* pc[g]: where goroutine g is in LoadChart
    target,      \* target[g]: the holder goroutine g's call is on
    ctxErr,      \* ctxErr[g]: ctx.Err() of the call's context, NoError while live
    ret,         \* ret[g]: what the call returned, [chart, err]
    trace,       \* trace[g]: the path of the call: "fast", "recheck" and the
                 \* collaborators it invoked ("creds", "locate", "load"), in order
    atEntry,     \* atEntry[g]: holder.chart when the call was made
    stats,       \* stats[i]: load attempts on holder i (LocateChart invocations),
                 \* loads that succeeded, attempts that failed in locate or load,
                 \* and whether the chart was written to after it was stored
    callsMade,   \* LoadChart calls made so far
    inputs,      \* the sources New was called with
    ctor,        \* New: [pc, i, holders, r, err]
    calc,        \* a call of a function of the package on its own: the
                 \* function, its arguments and what it returned
    opts,        \* Renderer.opts and whether Renderer.cache is non-nil
    repo,        \* repo[i]: the text of the CRD file of the chart source i
                 \* names, "" when the chart declares none
    cache,       \* the entries of Renderer.cache
    proc,        \* proc[g]: the locals of goroutine g's Process call
    out,         \* out[g]: what the Process call returned
    prev,        \* what an earlier successful Process call was given and returned
    processCalls \* Process calls made so far

\* The holders of the renderer, one per source.
Holders == DOMAIN sources

newVars == <<inputs, ctor, calc>>
procVars == <<opts, repo, cache, proc, out, prev, processCalls>>
\* What LoadChart neither reads nor writes.
notLoad == <<newVars, procVars>>
vars == <<sources, chart, heap, mu, pc, target, ctxErr, ret, trace, atEntry,
          stats, callsMade, newVars, procVars>>

(***************************************************************************)
(* Errors: a chain of layers, outermost first, as fmt.Errorf("...: %w")    *)
(* builds it. errors.Is walks the chain.                                   *)
(***************************************************************************)
Layer(msg, c, r) == [msg |-> msg, chart |-> c, release |-> r]
Cause(msg) == <<Layer(msg, NoStr, NoStr)>>
Wrap(msg, c, r, err) == <<Layer(msg, c, r)>> \o err
ErrorsIs(err, cause) ==
    /\ err # NoError
    /\ \E i \in 1..Len(err) : <<err[i]>> = cause

Canceled == Cause("context canceled")
DeadlineExceeded == Cause("context deadline exceeded")
ErrRegistryClient == Cause("registry client")
ErrCredentialsProvider == Cause("credentials provider failed")
ErrLocate == Cause("chart not found")
ErrLoad == Cause("malformed chart")

(***************************************************************************)
(* sync.RWMutex                                                            *)
(***************************************************************************)
Unlocked == [writer |-> NoGoroutine, readers |-> {}]
CanRLock(m) == m.writer = NoGoroutine
CanLock(m) == m.writer = NoGoroutine /\ m.readers = {}

(***************************************************************************)
(* Source. Strings are sequences of characters. Values and Credentials say *)
(* whether the source has the provider function.                           *)
(***************************************************************************)
Source(c, r, v, values, creds, deps) ==
    [Chart |-> c, ReleaseName |-> r, ReleaseVersion |-> v, Values |-> values,
     Credentials |-> creds, ProcessDependencies |-> deps]

\* No function is called on its own.
NoCalc == [fn |-> "none", pc |-> "none"]

\* Before New: no renderer is under construction.
NoCtor == [pc |-> "none", i |-> 0, holders |-> <<>>, r |-> FALSE, err |-> NoError]

\* The sources of the load model: holder i has a credentials provider or not,
\* as Init chooses.
Digits == <<"1", "2", "3", "4", "5">>
LoadSource(i, creds) ==
    Source(<<"c", Digits[i]>>, <<"r", Digits[i]>>, NoStr, FALSE, creds, FALSE)

NoStats == [attempts |-> 0, ok |-> 0, failed |-> 0, written |-> FALSE]
NoRet == [chart |-> NoChart, err |-> NoError]

\* RendererOptions{} and a nil cache. Cache says whether Renderer.cache is
\* non-nil, TTL is the cache's time to live, KeyFunc its key function.
NoOpts == [Filters |-> <<>>, Transformers |-> <<>>, SourceAnnotations |-> FALSE,
           Cache |-> FALSE, TTL |-> 0, KeyFunc |-> "none"]
\* A values tree maps each key to 0 (absent) or to a value; nil and the empty
\* map are the tree with every key absent.
Keys == {"a"}
NoValues == [k \in Keys |-> 0]
NoRenderValues == [Values |-> NoValues, Release |-> NoStr, Chart |-> NoStr]
\* No Process call in progress: the locals of Process and processSingle.
\*   i: the loop index of Process; rtv: renderTimeValues; all: allObjects;
\*   renderValues, files, result: the locals of processSingle; objects: what
\*   processSingle returned; hits: the sources whose objects came from the
\*   cache; rendered: the sources helmEngine.Render was called for; late: the
\*   sweep of this source found the entry of its key expired; seen: what the values provider and the render collaborator returned
\*   to this call, per source handled; valued: the sources processValues
\*   has returned render values for.
NoProc == [i |-> 0, rtv |-> NoValues, all |-> <<>>,
           renderValues |-> NoRenderValues, files |-> {}, result |-> <<>>,
           objects |-> <<>>, hits |-> {}, rendered |-> {}, late |-> FALSE,
           seen |-> <<>>, valued |-> {}]
\* Process has not returned. Of a return: nil says the object slice is nil;
\* at, step and cause say which source failed, in which step and with which
\* original error; done is the number of sources whose objects were appended
\* and partial is allObjects when the call returned; rtv and seen are the
\* call's inputs, hits the sources served from the cache, rendered those
\* the render collaborator was called for; mutated says the
\* caller has changed the objects it was given.
NoOut == [returned |-> FALSE, nil |-> TRUE, objects |-> <<>>, err |-> NoError,
          at |-> 0, step |-> "", cause |-> NoError, done |-> 0,
          partial |-> <<>>, rtv |-> NoValues, seen |-> <<>>, hits |-> {},
          rendered |-> {}, mutated |-> FALSE]
\* prev keeps the inputs and the result of the first successful Process call
\* when keep is set.
NoPrev == [keep |-> FALSE, set |-> FALSE, rtv |-> NoValues, seen |-> <<>>,
           objects |-> <<>>]

\* A renderer no Process call was made on.
NoProcess ==
    /\ opts = NoOpts
    /\ repo = <<>>
    /\ cache = {}
    /\ proc = [g \in Goroutines |-> NoProc]
    /\ out = [g \in Goroutines |-> NoOut]
    /\ prev = NoPrev
    /\ processCalls = 0

InitLoad ==
    /\ \E creds \in [LoadHolders -> BOOLEAN] :
        sources = [i \in LoadHolders |-> LoadSource(i, creds[i])]
    /\ chart = [i \in LoadHolders |-> NoChart]
    /\ heap = 0
    /\ mu = [i \in LoadHolders |-> Unlocked]
    /\ pc = [g \in Goroutines |-> "idle"]
    /\ target = [g \in Goroutines |-> 1]
    /\ ctxErr = [g \in Goroutines |-> NoError]
    /\ ret = [g \in Goroutines |-> NoRet]
    /\ trace = [g \in Goroutines |-> <<>>]
    /\ atEntry = [g \in Goroutines |-> NoChart]
    /\ stats = [i \in LoadHolders |-> NoStats]
    /\ callsMade = 0
    /\ inputs = <<>>
    /\ ctor = NoCtor
    /\ calc = NoCalc
    /\ NoProcess

(***************************************************************************)
(* sourceHolder.LoadChart, step by step.                                   *)
(***************************************************************************)
\* A caller invokes holder.LoadChart(ctx, settings).
LoadCall(g) ==
    /\ pc[g] = "idle"
    /\ callsMade < MaxLoadCalls
    /\ \E h \in Holders :
        /\ target' = [target EXCEPT ![g] = h]
        /\ atEntry' = [atEntry EXCEPT ![g] = chart[h]]
    /\ callsMade' = callsMade + 1
    /\ pc' = [pc EXCEPT ![g] = "RLock"]
    /\ ctxErr' = [ctxErr EXCEPT ![g] = NoError]
    /\ ret' = [ret EXCEPT ![g] = NoRet]
    /\ trace' = [trace EXCEPT ![g] = <<>>]
    /\ UNCHANGED <<sources, chart, heap, mu, stats,
                   notLoad>>

\* The call's context is cancelled or passes its deadline, at any time.
Cancel(g) ==
    /\ pc[g] \notin {"idle", "done", "returned"}
    /\ ctxErr[g] = NoError
    /\ \E e \in {Canceled, DeadlineExceeded} :
        ctxErr' = [ctxErr EXCEPT ![g] = e]
    /\ UNCHANGED <<sources, chart, heap, mu, pc, target, ret, trace, atEntry,
                   stats, callsMade,
                   notLoad>>

\* return c, err with the deferred h.mu.Unlock()
ReturnUnlock(g, c, err) ==
    /\ ret' = [ret EXCEPT ![g] = [chart |-> c, err |-> err]]
    /\ mu' = [mu EXCEPT ![target[g]].writer = NoGoroutine]
    /\ pc' = [pc EXCEPT ![g] = "done"]

\* h.mu.RLock()
RLock(g) ==
    /\ pc[g] = "RLock"
    /\ CanRLock(mu[target[g]])
    /\ mu' = [mu EXCEPT ![target[g]].readers = @ \cup {g}]
    /\ pc' = [pc EXCEPT ![g] = "FastPath"]
    /\ UNCHANGED <<sources, chart, heap, target, ctxErr, ret, trace, atEntry,
                   stats, callsMade,
                   notLoad>>

\* A fast path that looks at the context before it looks at the chart.
FastPath_CtxFirst(g) ==
    /\ pc[g] = "FastPath"
    /\ mu' = [mu EXCEPT ![target[g]].readers = @ \ {g}]
    /\ IF ctxErr[g] # NoError
       THEN /\ ret' = [ret EXCEPT ![g] = [chart |-> NoChart,
                            err |-> Wrap("context cancelled during chart load",
                                         NoStr, NoStr, ctxErr[g])]]
            /\ pc' = [pc EXCEPT ![g] = "done"]
            /\ UNCHANGED trace
       ELSE IF chart[target[g]] # NoChart
       THEN /\ ret' = [ret EXCEPT ![g] = [chart |-> chart[target[g]], err |-> NoError]]
            /\ pc' = [pc EXCEPT ![g] = "done"]
            /\ trace' = [trace EXCEPT ![g] = Append(@, "fast")]
       ELSE /\ pc' = [pc EXCEPT ![g] = "Lock"]
            /\ UNCHANGED <<ret, trace>>
    /\ UNCHANGED <<sources, chart, heap, target, ctxErr, atEntry, stats, callsMade,
                   notLoad>>

\* A fast path that goes for the write lock with the read lock still held.
FastPath_KeepRLock(g) ==
    /\ pc[g] = "FastPath"
    /\ IF chart[target[g]] # NoChart
       THEN /\ mu' = [mu EXCEPT ![target[g]].readers = @ \ {g}]
            /\ ret' = [ret EXCEPT ![g] = [chart |-> chart[target[g]], err |-> NoError]]
            /\ pc' = [pc EXCEPT ![g] = "done"]
            /\ trace' = [trace EXCEPT ![g] = Append(@, "fast")]
       ELSE /\ pc' = [pc EXCEPT ![g] = "Lock"]
            /\ UNCHANGED <<mu, ret, trace>>
    /\ UNCHANGED <<sources, chart, heap, target, ctxErr, atEntry, stats, callsMade,
                   notLoad>>

\* if h.chart != nil { c := h.chart; RUnlock; return c, nil }; RUnlock
FastPath(g) ==
    /\ pc[g] = "FastPath"
    /\ mu' = [mu EXCEPT ![target[g]].readers = @ \ {g}]
    /\ IF chart[target[g]] # NoChart
       THEN /\ ret' = [ret EXCEPT ![g] = [chart |-> chart[target[g]], err |-> NoError]]
            /\ pc' = [pc EXCEPT ![g] = "done"]
            /\ trace' = [trace EXCEPT ![g] = Append(@, "fast")]
       ELSE /\ pc' = [pc EXCEPT ![g] = "Lock"]
            /\ UNCHANGED <<ret, trace>>
    /\ UNCHANGED <<sources, chart, heap, target, ctxErr, atEntry, stats, callsMade,
                   notLoad>>

\* A slow path under the read lock.
Lock_ReadLock(g) ==
    /\ pc[g] = "Lock"
    /\ CanRLock(mu[target[g]])
    /\ mu' = [mu EXCEPT ![target[g]].readers = @ \cup {g}]
    /\ pc' = [pc EXCEPT ![g] = "DoubleCheck"]
    /\ UNCHANGED <<sources, chart, heap, target, ctxErr, ret, trace, atEntry,
                   stats, callsMade,
                   notLoad>>

\* A slow path that takes the lock without waiting for it.
Lock_NoWait(g) ==
    /\ pc[g] = "Lock"
    /\ mu' = [mu EXCEPT ![target[g]].writer = g]
    /\ pc' = [pc EXCEPT ![g] = "DoubleCheck"]
    /\ UNCHANGED <<sources, chart, heap, target, ctxErr, ret, trace, atEntry,
                   stats, callsMade,
                   notLoad>>

\* h.mu.Lock(); defer h.mu.Unlock()
Lock(g) ==
    /\ pc[g] = "Lock"
    /\ CanLock(mu[target[g]])
    /\ mu' = [mu EXCEPT ![target[g]].writer = g]
    /\ pc' = [pc EXCEPT ![g] = "DoubleCheck"]
    /\ UNCHANGED <<sources, chart, heap, target, ctxErr, ret, trace, atEntry,
                   stats, callsMade,
                   notLoad>>

\* A slow path without the second look at h.chart.
DoubleCheck_Missing(g) ==
    /\ pc[g] = "DoubleCheck"
    /\ pc' = [pc EXCEPT ![g] = "CtxCheck"]
    /\ UNCHANGED <<sources, chart, heap, mu, target, ctxErr, ret, trace, atEntry,
                   stats, callsMade,
                   notLoad>>

\* if h.chart != nil { return h.chart, nil }
DoubleCheck(g) ==
    /\ pc[g] = "DoubleCheck"
    /\ IF chart[target[g]] # NoChart
       THEN /\ ReturnUnlock(g, chart[target[g]], NoError)
            /\ trace' = [trace EXCEPT ![g] = Append(@, "recheck")]
       ELSE /\ pc' = [pc EXCEPT ![g] = "CtxCheck"]
            /\ UNCHANGED <<ret, mu, trace>>
    /\ UNCHANGED <<sources, chart, heap, target, ctxErr, atEntry, stats, callsMade,
                   notLoad>>

\* A slow path that goes on to the load whatever the context says.
CtxCheck_Skipped(g) ==
    /\ pc[g] = "CtxCheck"
    /\ pc' = [pc EXCEPT ![g] = "ChartPathOptions"]
    /\ UNCHANGED <<ret, mu>>
    /\ UNCHANGED <<sources, chart, heap, target, ctxErr, trace, atEntry,
                   stats, callsMade,
                   notLoad>>

\* if err := ctx.Err(); err != nil { return nil, fmt.Errorf("...: %w", err) }
CtxCheck(g) ==
    /\ pc[g] = "CtxCheck"
    /\ IF ctxErr[g] # NoError
       THEN ReturnUnlock(g, NoChart,
                Wrap("context cancelled during chart load", NoStr, NoStr, ctxErr[g]))
       ELSE /\ pc' = [pc EXCEPT ![g] = "ChartPathOptions"]
            /\ UNCHANGED <<ret, mu>>
    /\ UNCHANGED <<sources, chart, heap, target, ctxErr, trace, atEntry,
                   stats, callsMade,
                   notLoad>>

\* createChartPathOptions: registry.NewClient, then source.Credentials(ctx)
\* when the source has a provider.
CreateChartPathOptions(g) ==
    /\ pc[g] = "ChartPathOptions"
    /\ \/ /\ ReturnUnlock(g, NoChart,
                Wrap("unable to create registry client", NoStr, NoStr, ErrRegistryClient))
          /\ UNCHANGED <<trace, stats>>
       \/ /\ ~sources[target[g]].Credentials
          /\ pc' = [pc EXCEPT ![g] = "LocateChart"]
          /\ UNCHANGED <<ret, mu, trace, stats>>
       \/ /\ sources[target[g]].Credentials
          /\ trace' = [trace EXCEPT ![g] = Append(@, "creds")]
          /\ UNCHANGED stats
          /\ \/ /\ pc' = [pc EXCEPT ![g] = "LocateChart"]
                /\ UNCHANGED <<ret, mu>>
             \/ ReturnUnlock(g, NoChart,
                    Wrap("failed to get credentials", NoStr, NoStr, ErrCredentialsProvider))
    /\ UNCHANGED <<sources, chart, heap, target, ctxErr, atEntry, callsMade,
                   notLoad>>

\* path, err := opt.LocateChart(h.Chart, settings)
LocateChart(g) ==
    /\ pc[g] = "LocateChart"
    /\ trace' = [trace EXCEPT ![g] = Append(@, "locate")]
    /\ \/ /\ pc' = [pc EXCEPT ![g] = "Load"]
          /\ stats' = [stats EXCEPT ![target[g]].attempts = @ + 1]
          /\ UNCHANGED <<ret, mu>>
       \/ /\ ReturnUnlock(g, NoChart,
                Wrap("unable to locate chart", sources[target[g]].Chart, NoStr, ErrLocate))
          /\ stats' = [stats EXCEPT ![target[g]].attempts = @ + 1,
                                    ![target[g]].failed = @ + 1]
    /\ UNCHANGED <<sources, chart, heap, target, ctxErr, atEntry, callsMade,
                   notLoad>>

\* h.chart, err = loader.Load(path): the field is assigned before err is looked at.
Load_StoreBeforeCheck(g) ==
    /\ pc[g] = "Load"
    /\ trace' = [trace EXCEPT ![g] = Append(@, "load")]
    /\ heap' = heap + 1
    /\ chart' = [chart EXCEPT ![target[g]] = heap + 1]
    /\ \/ /\ ReturnUnlock(g, heap + 1, NoError)
          /\ stats' = [stats EXCEPT ![target[g]].ok = @ + 1]
       \/ /\ ReturnUnlock(g, NoChart,
                Wrap("failed to load chart", sources[target[g]].Chart, NoStr, ErrLoad))
          /\ stats' = [stats EXCEPT ![target[g]].failed = @ + 1]
    /\ UNCHANGED <<sources, target, ctxErr, atEntry, callsMade,
                   notLoad>>

\* c, err := loader.Load(path); on success h.chart = c; return h.chart, nil
Load(g) ==
    /\ pc[g] = "Load"
    /\ trace' = [trace EXCEPT ![g] = Append(@, "load")]
    /\ \/ /\ heap' = heap + 1
          /\ chart' = [chart EXCEPT ![target[g]] = heap + 1]
          /\ ReturnUnlock(g, heap + 1, NoError)
          /\ stats' = [stats EXCEPT ![target[g]].ok = @ + 1]
       \/ /\ ReturnUnlock(g, NoChart,
                Wrap("failed to load chart", sources[target[g]].Chart, NoStr, ErrLoad))
          /\ stats' = [stats EXCEPT ![target[g]].failed = @ + 1]
          /\ UNCHANGED <<chart, heap>>
    /\ UNCHANGED <<sources, target, ctxErr, atEntry, callsMade,
                   notLoad>>

\* The caller takes the result; the goroutine may call again.
LoadReturn(g) ==
    /\ pc[g] = "done"
    /\ pc' = [pc EXCEPT ![g] = "idle"]
    /\ target' = [target EXCEPT ![g] = 1]
    /\ ctxErr' = [ctxErr EXCEPT ![g] = NoError]
    /\ ret' = [ret EXCEPT ![g] = NoRet]
    /\ trace' = [trace EXCEPT ![g] = <<>>]
    /\ atEntry' = [atEntry EXCEPT ![g] = NoChart]
    /\ UNCHANGED <<sources, chart, heap, mu, stats, callsMade,
                   notLoad>>

NextLoad ==
    \E g \in Goroutines :
        \/ LoadCall(g)
        \/ Cancel(g)
        \/ RLock(g)
        \/ FastPath(g)
        \/ Lock(g)
        \/ DoubleCheck(g)
        \/ CtxCheck(g)
        \/ CreateChartPathOptions(g)
        \/ LocateChart(g)
        \/ Load(g)
        \/ LoadReturn(g)

SpecLoad == InitLoad /\ [][NextLoad]_vars

(***************************************************************************)
(* Claims about LoadChart (SpecLoad).                                      *)
(***************************************************************************)
Returned(g, h) == pc[g] = "done" /\ target[g] = h
ReturnedChart(g, h) == Returned(g, h) /\ ret[g].err = NoError
\* Every goroutine has made its first call, all on holder h, and all have returned.
AllFirstCallsReturned(h) ==
    /\ callsMade = NumGoroutines
    /\ \A g \in Goroutines : Returned(g, h)

AttemptPcs == {"ChartPathOptions", "LocateChart", "Load"}
LoadClass(err) ==
    \/ ErrorsIs(err, ErrRegistryClient)
    \/ ErrorsIs(err, ErrCredentialsProvider)
    \/ ErrorsIs(err, ErrLocate)
    \/ ErrorsIs(err, ErrLoad)
\* The step at which a call that found the holder unloaded starts the load:
\* the credentials provider when the source has one, locate, then load.
FullLoad(h) ==
    IF sources[h].Credentials THEN <<"creds", "locate", "load">>
    ELSE <<"locate", "load">>
IsPrefix(s, t) == Len(s) <= Len(t) /\ \A k \in 1..Len(s) : s[k] = t[k]

C3_LoadedIsMonotonic ==
    [][/\ \A h \in Holders : chart[h] # NoChart => chart'[h] = chart[h]
       /\ \A g \in Goroutines :
            (pc'[g] = "done" /\ atEntry'[g] # NoChart) =>
                /\ ret'[g] = [chart |-> atEntry'[g], err |-> NoError]
                /\ chart'[target'[g]] = atEntry'[g]
                /\ trace'[g] \in {<<"fast">>, <<"recheck">>}
      ]_vars

\* A call made on a loaded holder has returned the chart, its context cancelled
\* on the way, after an earlier attempt on the holder had failed.
C3_Witness ==
    \E g \in Goroutines :
        /\ pc[g] = "done" /\ atEntry[g] # NoChart
        /\ ctxErr[g] # NoError
        /\ ret[g] = [chart |-> chart[1], err |-> NoError]

(***************************************************************************)
(* New and sourceHolder.Validate.                                          *)
(*                                                                         *)
(*   SpecNew : New called with a list of sources; one step per holder      *)
(*             wrapped and validated.                                      *)
(***************************************************************************)
maxReleaseNameLength == 53

\* Bounds of the inputs: every string up to MaxShort characters, and the
\* strings within LenMargin of maxReleaseNameLength made of one repeated
\* character between an arbitrary first and last part of up to one character.
MaxShort == 2
LenMargin == 1
MaxSources == 3

\* Characters, by class: lowercase letter, digit, hyphen, uppercase letter,
\* underscore, white space.
Alphabet == {"a", "0", "-", "A", "_", " "}
IsSpace(c) == c \in {" ", "\t", "\n", "\r"}
IsLowerAlnum(c) == c \in {"a", "z", "0", "9"}
IsHyphenLowerAlnum(c) == c = "-" \/ IsLowerAlnum(c)

\* strings.TrimSpace
RECURSIVE TrimLeft(_)
TrimLeft(s) ==
    IF Len(s) > 0 /\ IsSpace(Head(s)) THEN TrimLeft(Tail(s)) ELSE s
RECURSIVE TrimRight(_)
TrimRight(s) ==
    IF Len(s) > 0 /\ IsSpace(s[Len(s)])
    THEN TrimRight(SubSeq(s, 1, Len(s) - 1))
    ELSE s
TrimSpace(s) == TrimRight(TrimLeft(s))

\* releaseNameRegex.MatchString: the automaton of
\* ^[a-z0-9]([-a-z0-9]*[a-z0-9])?$ run over the whole string. State "start";
\* "first" after the leading [a-z0-9]; "star" inside [-a-z0-9]*; "last" after
\* the group's closing [a-z0-9]. "first" and "last" accept.
RegexStep(q, c) ==
    CASE q = "start" -> IF IsLowerAlnum(c) THEN {"first"} ELSE {}
      [] q = "first" -> (IF IsHyphenLowerAlnum(c) THEN {"star"} ELSE {})
                        \cup (IF IsLowerAlnum(c) THEN {"last"} ELSE {})
      [] q = "star"  -> (IF IsHyphenLowerAlnum(c) THEN {"star"} ELSE {})
                        \cup (IF IsLowerAlnum(c) THEN {"last"} ELSE {})
      [] OTHER       -> {}
RECURSIVE RegexRun(_, _, _)
RegexRun(qs, s, k) ==
    IF k > Len(s) \/ qs = {} THEN qs
    ELSE RegexRun(UNION {RegexStep(q, s[k]) : q \in qs}, s, k + 1)
MatchString(s) == RegexRun({"start"}, s, 1) \cap {"first", "last"} # {}

ErrChartEmpty == Cause("chart cannot be empty or whitespace-only")
ErrReleaseNameEmpty == Cause("release name cannot be empty or whitespace-only")
ErrReleaseNameTooLong == Cause("release name exceeds maximum length")
ErrReleaseNameInvalidFormat ==
    Cause("release name must consist of lowercase alphanumeric characters or '-'")

\* sourceHolder.Validate: the error, NoError when the source is valid.
Validate(h) ==
    IF Len(TrimSpace(h.Chart)) = 0 THEN ErrChartEmpty
    ELSE LET releaseName == TrimSpace(h.ReleaseName) IN
         IF Len(releaseName) = 0 THEN ErrReleaseNameEmpty
         ELSE IF Len(releaseName) > maxReleaseNameLength
         THEN Wrap("must not exceed", NoStr, NoStr, ErrReleaseNameTooLong)
         ELSE IF ~MatchString(releaseName)
         THEN Wrap("got", NoStr, releaseName, ErrReleaseNameInvalidFormat)
         ELSE NoError

\* The strings New is tried on.
RECURSIVE Repeat(_, _)
Repeat(c, n) == IF n = 0 THEN <<>> ELSE <<c>> \o Repeat(c, n - 1)
StringsUpTo(n) == UNION {[1..k -> Alphabet] : k \in 0..n}
LongLengths ==
    (maxReleaseNameLength - LenMargin - 1)..(maxReleaseNameLength + LenMargin)
LongStrings ==
    {pre \o Repeat(c, n) \o post :
        pre \in StringsUpTo(1), post \in StringsUpTo(1),
        c \in Alphabet, n \in LongLengths}
ReleaseNames == StringsUpTo(MaxShort) \cup LongStrings
Charts == {<<>>, <<" ">>, <<"a">>, <<" ", "a">>}
InputSource(c, r) == Source(c, r, NoStr, FALSE, FALSE, FALSE)

\* A few sources, one of each kind of Validate's outcomes, for the lists of
\* more than one source.
KindsOfSource ==
    { InputSource(<<"a">>, <<"a", "-", "0">>),
      InputSource(<<" ">>, <<"a">>),
      InputSource(<<"a">>, <<" ">>),
      InputSource(<<"a">>, Repeat("a", maxReleaseNameLength + 1)),
      InputSource(<<"a">>, <<"a", "_">>) }
InputLists ==
    {<<InputSource(c, r)>> : c \in Charts, r \in ReleaseNames}
    \cup UNION {[1..k -> KindsOfSource] : k \in 0..MaxSources}

InitNew ==
    /\ inputs \in InputLists
    /\ calc = NoCalc
    /\ ctor = [pc |-> "validate", i |-> 1, holders |-> <<>>, r |-> FALSE,
               err |-> NoError]
    /\ sources = <<>>
    /\ chart = <<>>
    /\ heap = 0
    /\ mu = <<>>
    /\ pc = [g \in Goroutines |-> "idle"]
    /\ target = [g \in Goroutines |-> 1]
    /\ ctxErr = [g \in Goroutines |-> NoError]
    /\ ret = [g \in Goroutines |-> NoRet]
    /\ trace = [g \in Goroutines |-> <<>>]
    /\ atEntry = [g \in Goroutines |-> NoChart]
    /\ stats = <<>>
    /\ callsMade = 0
    /\ NoProcess

\* A loop that leaves at the first valid source instead of the first invalid one.
NewHolder_FirstOnly ==
    /\ ctor.pc = "validate"
    /\ ctor.i <= Len(inputs)
    /\ LET h == inputs[ctor.i]
           err == Validate(h)
       IN ctor' = IF err # NoError
                  THEN [ctor EXCEPT !.pc = "returned", !.holders = <<>>,
                                    !.err = err]
                  ELSE [ctor EXCEPT !.i = Len(inputs) + 1,
                                    !.holders = SubSeq(inputs, 1, Len(inputs))]
    /\ UNCHANGED <<sources, chart, heap, mu, pc, target, ctxErr, ret, trace,
                   atEntry, stats, callsMade, inputs, calc,
                   procVars>>

\* holders[i] = &sourceHolder{Source: inputs[i], mu: &sync.RWMutex{}};
\* if err := holders[i].Validate(); err != nil { return nil, err }
NewHolder ==
    /\ ctor.pc = "validate"
    /\ ctor.i <= Len(inputs)
    /\ LET h == inputs[ctor.i]
           err == Validate(h)
       IN ctor' = IF err # NoError
                  THEN [ctor EXCEPT !.pc = "returned", !.holders = <<>>,
                                    !.err = err]
                  ELSE [ctor EXCEPT !.i = @ + 1, !.holders = Append(@, h)]
    /\ UNCHANGED <<sources, chart, heap, mu, pc, target, ctxErr, ret, trace,
                   atEntry, stats, callsMade, inputs, calc,
                   procVars>>

\* r := &Renderer{sources: holders, ...}; return r, nil
NewRenderer ==
    /\ ctor.pc = "validate"
    /\ ctor.i > Len(inputs)
    /\ ctor' = [ctor EXCEPT !.pc = "returned", !.r = TRUE]
    /\ sources' = ctor.holders
    /\ chart' = [i \in DOMAIN ctor.holders |-> NoChart]
    /\ mu' = [i \in DOMAIN ctor.holders |-> Unlocked]
    /\ stats' = [i \in DOMAIN ctor.holders |-> NoStats]
    /\ UNCHANGED <<heap, pc, target, ctxErr, ret, trace, atEntry, callsMade,
                   inputs, calc,
                   procVars>>

NextNew ==
    \/ NewHolder
    \/ NewRenderer

SpecNew == InitNew /\ [][NextNew]_vars

(***************************************************************************)
(* Claims about New and Validate (SpecNew).                                *)
(***************************************************************************)
NewReturned == ctor.pc = "returned"
\* New returned (nil, err)
NewFailed == NewReturned /\ ~ctor.r /\ ctor.err # NoError
\* New returned (r, nil)
NewSucceeded == NewReturned /\ ctor.r /\ ctor.err = NoError

\* The four ways a source is invalid, as Validate reports them.
ValidationErrors ==
    {ErrChartEmpty, ErrReleaseNameEmpty, ErrReleaseNameTooLong,
     ErrReleaseNameInvalidFormat}
Rejected(src) == \E e \in ValidationErrors : ErrorsIs(Validate(src), e)
FirstRejected ==
    CHOOSE i \in DOMAIN inputs :
        Rejected(inputs[i]) /\ \A j \in 1..(i - 1) : ~Rejected(inputs[j])

WellFormedName(n) ==
    /\ Len(n) >= 1
    /\ Len(n) <= maxReleaseNameLength
    /\ \A k \in 1..Len(n) : n[k] \in {"a", "z", "0", "9", "-"}
    /\ n[1] # "-"
    /\ n[Len(n)] # "-"
NonBlank(str) == \E k \in 1..Len(str) : str[k] # " "

\* C9: in every renderer New returned, each source's release name, as the
\* holder stores it, is non-empty, at most 53 characters long and matches the
\* pattern, and its chart reference is non-empty after trimming.
C9_StoredNamesAreWellFormed ==
    NewSucceeded =>
        \A i \in DOMAIN sources :
            /\ WellFormedName(sources[i].ReleaseName)
            /\ NonBlank(sources[i].Chart)

\* C10: validation accepts exactly the well-formed release names (the chart
\* being valid).
C10_AcceptsExactlyWellFormedNames ==
    (NewReturned /\ Len(inputs) = 1 /\ NonBlank(inputs[1].Chart)) =>
        (NewSucceeded <=> WellFormedName(inputs[1].ReleaseName))

\* C33: validation reports the first failing check in the order empty chart,
\* empty release name, release name too long, invalid format: a source with
\* an empty chart and a bad release name is rejected as chart-empty, a
\* release name both longer than 53 characters and not matching the pattern
\* is rejected as too long, and the error of a list with several invalid
\* sources is that of the first of them.
C33_FirstFailingCheckReported ==
    NewReturned =>
        /\ NewFailed => ctor.err = Validate(inputs[FirstRejected])
        /\ Len(inputs) = 1 =>
              /\ (~NonBlank(inputs[1].Chart)
                  /\ ~WellFormedName(inputs[1].ReleaseName))
                 => NewFailed /\ ErrorsIs(ctor.err, ErrChartEmpty)
              /\ ( /\ NonBlank(inputs[1].Chart)
                   /\ Len(inputs[1].ReleaseName) > maxReleaseNameLength
                   /\ ~MatchString(inputs[1].ReleaseName) )
                 => NewFailed /\ ErrorsIs(ctor.err, ErrReleaseNameTooLong)

(***************************************************************************)
(* Process. One caller makes Process calls on a renderer of NumSources     *)
(* sources; each call runs processSingle on the sources in turn, LoadChart *)
(* being the steps of the load model.                                      *)
(***************************************************************************)
NumSources == 2
MaxProcessCalls == 2

Callers == {1}

\* The sources of the renderer: odd sources have a values provider, even ones
\* a credentials provider and ProcessDependencies.
ProcSource(i) ==
    Source(<<"c", Digits[i]>>, <<"r", Digits[i]>>, NoStr,
           i % 2 = 1, i % 2 = 0, i % 2 = 0)

\* The errors of the collaborators.
ErrValuesProvider == Cause("values provider failed")
ErrDependencies == Cause("dependency processing failed")
ErrRenderValues == Cause("render values failed")
ErrRender == Cause("template error")
ErrDecode == Cause("yaml: cannot decode")
ErrFilter == Cause("filter failed")

\* Values trees a caller passes and a values provider returns.
RenderTimeValues == {NoValues, [k \in Keys |-> 1]}
SourceValues == {NoValues, [k \in Keys |-> 2]}
\* util.DeepMerge(base, override): the override's value where it has the key.
DeepMerge(base, override) ==
    [k \in Keys |-> IF override[k] # 0 THEN override[k] ELSE base[k]]
\* chartutil.ToRenderValues: the values under the release and chart they are for.
ToRenderValues(h, values) ==
    [Values |-> values, Release |-> h.ReleaseName, Chart |-> h.Chart]
\* ChartSpec{...}, what the cache key is derived from.
ChartSpec(h, renderValues) ==
    [Chart |-> h.Chart, ReleaseName |-> h.ReleaseName,
     ReleaseVersion |-> h.ReleaseVersion, Values |-> renderValues]

\* The key functions. A key is a string, here a sequence of characters and,
\* for the hash, of the fields hashed.
\* A hash that leaves the values out.
DefaultCacheKey_NoValues(spec) ==
    <<"hash", spec.Chart, spec.ReleaseName, spec.ReleaseVersion>>
\* dump.ForHash(spec): the hash of every field of the spec.
DefaultCacheKey(spec) ==
    <<"hash", spec.Chart, spec.ReleaseName, spec.ReleaseVersion, spec.Values>>
\* A fast key that tells the values apart.
FastCacheKeyFunc_WithValues(spec) ==
    <<spec.Chart \o <<":">> \o spec.ReleaseName \o <<":">> \o spec.ReleaseVersion,
      spec.Values>>
\* spec.Chart + ":" + spec.ReleaseName + ":" + spec.ReleaseVersion
FastCacheKeyFunc(spec) ==
    spec.Chart \o <<":">> \o spec.ReleaseName \o <<":">> \o spec.ReleaseVersion
\* spec.Chart + ":" + spec.ReleaseVersion, spec.Chart alone without a version
ChartOnlyCacheKey(spec) ==
    IF spec.ReleaseVersion # NoStr
    THEN spec.Chart \o <<":">> \o spec.ReleaseVersion
    ELSE spec.Chart
\* The key the renderer's cache derives from a spec.
KeyOf(spec) ==
    IF opts.KeyFunc = "fast" THEN FastCacheKeyFunc(spec) ELSE DefaultCacheKey(spec)

\* Texts of files: "one" and "two" hold that many YAML documents, "bad" does
\* not decode, "" holds none.
Docs(text) == IF text = "two" THEN <<1, 2>> ELSE IF text = "one" THEN <<1>> ELSE <<>>
Decodes(text) == text # "bad"
CRDTexts == {"", "one", "bad"}
\* What helmEngine.Render may return: a map from file name to text, as the set
\* of its entries.
File(name, text) == [name |-> name, text |-> text]
RenderOutputs ==
    { {File("a.yaml", "two"), File("b.yml", "one"), File("NOTES.txt", "one")},
      {File("a.yaml", "bad"), File("b.yml", "one")} }
\* strings.HasSuffix(k, ".yaml") || strings.HasSuffix(k, ".yml")
IsYAML(name) == name \in {"a.yaml", "b.yml"}

\* An object: the source and file it came from, its document, its source
\* annotations, the label a transformer sets, and whether a caller of Process
\* has changed it (SetName and the like).
\* The second document of a file has annotations of its own.
NoAnnotations == [type |-> "", path |-> NoStr, file |-> "", other |-> FALSE]
Object(i, file, doc) ==
    [src |-> i, file |-> file, doc |-> doc,
     ann |-> [NoAnnotations EXCEPT !.other = (doc = 2)], lbl |-> FALSE,
     mod |-> FALSE]
\* k8s.DecodeYAML of a text that decodes
DecodeYAML(i, file, text) ==
    [d \in 1..Len(Docs(text)) |-> Object(i, file, Docs(text)[d])]
\* An addSourceAnnotations that sets a map of the three annotations only.
addSourceAnnotations_Fresh(objects, chartPath, fileName) ==
    IF ~opts.SourceAnnotations THEN objects
    ELSE [k \in 1..Len(objects) |->
            [objects[k] EXCEPT !.ann = [type |-> "helm", path |-> chartPath,
                                        file |-> fileName, other |-> FALSE]]]
\* addSourceAnnotations(objects, chartPath, fileName): the three annotations
\* are put into the map of the annotations the object has.
addSourceAnnotations(objects, chartPath, fileName) ==
    IF ~opts.SourceAnnotations THEN objects
    ELSE [k \in 1..Len(objects) |->
            [objects[k] EXCEPT !.ann.type = "helm", !.ann.path = chartPath,
                               !.ann.file = fileName]]

\* The renderer configurations: WithFilter, WithTransformer,
\* WithSourceAnnotations, WithCache.
\* RendererOptions.CacheOptions: nil unless WithCache was applied; WithCache
\* with cache.WithTTL and cache.WithKeyFunc sets the fields.
NoCacheOptions == [set |-> FALSE, TTL |-> 0, KeyFunc |-> "nil"]
CacheOptions(ttl, keyFunc) == [set |-> TRUE, TTL |-> ttl, KeyFunc |-> keyFunc]
\* A cache whatever the options.
newCache_Always(co) ==
    [Cache |-> TRUE, TTL |-> co.TTL,
     KeyFunc |-> IF co.KeyFunc = "nil" THEN "default" ELSE co.KeyFunc]
\* newCache(opts): nil without options, else a cache with the options and
\* the default key function where none is set.
newCache(co) ==
    IF ~co.set THEN [Cache |-> FALSE, TTL |-> 0, KeyFunc |-> "none"]
    ELSE [Cache |-> TRUE, TTL |-> co.TTL,
          KeyFunc |-> IF co.KeyFunc = "nil" THEN "default" ELSE co.KeyFunc]
\* The renderer New builds from the options applied.
RendererWith(filters, transformers, annotations, co) ==
    LET c == newCache(co)
    IN [Filters |-> filters, Transformers |-> transformers,
        SourceAnnotations |-> annotations, Cache |-> c.Cache, TTL |-> c.TTL,
        KeyFunc |-> c.KeyFunc]
OptionSets ==
    { RendererWith(<<>>, <<>>, FALSE, NoCacheOptions),
      RendererWith(<<"firstDoc">>, <<"label">>, TRUE, CacheOptions(1, "nil")),
      RendererWith(<<>>, <<>>, FALSE, CacheOptions(1, "fast")) }
\* The CRD files of the charts in the repository.
Repos ==
    { [i \in 1..NumSources |-> ""],
      [i \in 1..NumSources |-> IF i = 1 THEN "one" ELSE ""],
      [i \in 1..NumSources |-> IF i = NumSources THEN "bad" ELSE "one"] }

InitWith(keep) ==
    /\ sources = [i \in 1..NumSources |-> ProcSource(i)]
    /\ chart = [i \in 1..NumSources |-> NoChart]
    /\ heap = 0
    /\ mu = [i \in 1..NumSources |-> Unlocked]
    /\ pc = [g \in Goroutines |-> "idle"]
    /\ target = [g \in Goroutines |-> 1]
    /\ ctxErr = [g \in Goroutines |-> NoError]
    /\ ret = [g \in Goroutines |-> NoRet]
    /\ trace = [g \in Goroutines |-> <<>>]
    /\ atEntry = [g \in Goroutines |-> NoChart]
    /\ stats = [i \in 1..NumSources |-> NoStats]
    /\ callsMade = 0
    /\ inputs = <<>>
    /\ ctor = NoCtor
    /\ calc = NoCalc
    /\ opts \in OptionSets
    /\ repo \in Repos
    /\ cache = {}
    /\ proc = [g \in Goroutines |-> NoProc]
    /\ out = [g \in Goroutines |-> NoOut]
    /\ prev = [NoPrev EXCEPT !.keep = keep]
    /\ processCalls = 0

Init == InitWith(FALSE)

loadVars == <<sources, chart, heap, mu, stats, callsMade>>
callVars == <<target, ret, trace, atEntry>>

\* r.Process(ctx, renderTimeValues): allObjects := make(..., 0)
ProcessCall(g) ==
    /\ pc[g] = "idle"
    /\ processCalls < MaxProcessCalls
    /\ processCalls' = processCalls + 1
    /\ \E rtv \in RenderTimeValues :
        proc' = [proc EXCEPT ![g] = [NoProc EXCEPT !.i = 1, !.rtv = rtv]]
    /\ ctxErr' = [ctxErr EXCEPT ![g] = NoError]
    /\ out' = [out EXCEPT ![g] = NoOut]
    /\ pc' = [pc EXCEPT ![g] = "Process"]
    /\ UNCHANGED <<loadVars, callVars, newVars, opts, repo, cache, prev>>

\* fmt.Errorf("<msg> %s (release: %s): %w", r.sources[i].Chart,
\*            r.sources[i].ReleaseName, err)
ProcessError_NoWrap(i, msg, err) ==
    <<Layer(msg, sources[i].Chart, sources[i].ReleaseName)>>
ProcessError(i, msg, err) ==
    Wrap(msg, sources[i].Chart, sources[i].ReleaseName, err)

\* return allObjects, err: the objects of the sources that succeeded go out
\* with the error.
ProcessFail_Partial(g, step, err, cause) ==
    /\ out' = [out EXCEPT ![g] =
                 [NoOut EXCEPT !.returned = TRUE, !.nil = FALSE,
                               !.objects = proc[g].all, !.err = err,
                               !.at = proc[g].i, !.step = step, !.cause = cause,
                               !.done = proc[g].i - 1, !.partial = proc[g].all]]
    /\ proc' = [proc EXCEPT ![g] = NoProc]
    /\ pc' = [pc EXCEPT ![g] = "returned"]
\* A loop that notes the error and goes on with the next source.
ProcessFail_Continue(g, step, err, cause) ==
    /\ out' = [out EXCEPT ![g] =
                 [NoOut EXCEPT !.nil = TRUE, !.err = err,
                               !.at = proc[g].i, !.step = step, !.cause = cause,
                               !.done = proc[g].i - 1, !.partial = proc[g].all]]
    /\ proc' = [proc EXCEPT ![g].i = @ + 1,
                            ![g].renderValues = NoRenderValues,
                            ![g].files = {},
                            ![g].result = <<>>,
                            ![g].objects = <<>>,
                            ![g].late = FALSE]
    /\ pc' = [pc EXCEPT ![g] = "Process"]
\* return nil, err
ProcessFail(g, step, err, cause) ==
    /\ out' = [out EXCEPT ![g] =
                 [NoOut EXCEPT !.returned = TRUE, !.nil = TRUE, !.err = err,
                               !.at = proc[g].i, !.step = step, !.cause = cause,
                               !.done = proc[g].i - 1, !.partial = proc[g].all]]
    /\ proc' = [proc EXCEPT ![g] = NoProc]
    /\ pc' = [pc EXCEPT ![g] = "returned"]

\* processSingle returned an error: Process wraps it and returns.
SingleFail(g, step, err, cause) ==
    ProcessFail(g, step,
                ProcessError(proc[g].i, "error rendering helm chart", err), cause)

\* for i := range r.sources { objects, err := r.processSingle(...): the loop
\* head; processSingle starts with holder.LoadChart(ctx, r.settings).
\* After the loop: return allObjects, nil.
ProcessLoop(g) ==
    /\ pc[g] = "Process"
    /\ IF proc[g].i > Len(sources)
       THEN /\ out' = [out EXCEPT ![g] =
                        [NoOut EXCEPT !.returned = TRUE, !.nil = FALSE,
                                      !.objects = proc[g].all,
                                      !.done = proc[g].i - 1,
                                      !.partial = proc[g].all,
                                      !.rtv = proc[g].rtv, !.seen = proc[g].seen,
                                      !.hits = proc[g].hits,
                                      !.rendered = proc[g].rendered]]
            /\ proc' = [proc EXCEPT ![g] = NoProc]
            /\ pc' = [pc EXCEPT ![g] = "returned"]
            /\ UNCHANGED callVars
       ELSE /\ target' = [target EXCEPT ![g] = proc[g].i]
            /\ atEntry' = [atEntry EXCEPT ![g] = chart[proc[g].i]]
            /\ ret' = [ret EXCEPT ![g] = NoRet]
            /\ trace' = [trace EXCEPT ![g] = <<>>]
            /\ pc' = [pc EXCEPT ![g] = "RLock"]
            /\ UNCHANGED <<proc, out>>
    /\ UNCHANGED <<loadVars, ctxErr, newVars, opts, repo, cache, prev,
                   processCalls>>

\* A processSingle that looks the cache up before it has the values.
AfterLoadChart_LookupFirst(g) ==
    /\ pc[g] = "done"
    /\ proc[g].i > 0
    /\ IF ret[g].err # NoError
       THEN SingleFail(g, "load", ret[g].err, <<ret[g].err[Len(ret[g].err)]>>)
       ELSE /\ pc' = [pc EXCEPT ![g] =
                        IF opts.Cache THEN "cache.Sync" ELSE "processValues"]
            /\ UNCHANGED <<proc, out>>
    /\ target' = [target EXCEPT ![g] = 1]
    /\ ret' = [ret EXCEPT ![g] = NoRet]
    /\ trace' = [trace EXCEPT ![g] = <<>>]
    /\ atEntry' = [atEntry EXCEPT ![g] = NoChart]
    /\ UNCHANGED <<loadVars, ctxErr, newVars, opts, repo, cache, prev,
                   processCalls>>

\* chart, err := holder.LoadChart(...); if err != nil { return nil, err }
AfterLoadChart(g) ==
    /\ pc[g] = "done"
    /\ proc[g].i > 0
    /\ IF ret[g].err # NoError
       THEN SingleFail(g, "load", ret[g].err, <<ret[g].err[Len(ret[g].err)]>>)
       ELSE /\ pc' = [pc EXCEPT ![g] = "processValues"]
            /\ UNCHANGED <<proc, out>>
    /\ target' = [target EXCEPT ![g] = 1]
    /\ ret' = [ret EXCEPT ![g] = NoRet]
    /\ trace' = [trace EXCEPT ![g] = <<>>]
    /\ atEntry' = [atEntry EXCEPT ![g] = NoChart]
    /\ UNCHANGED <<loadVars, ctxErr, newVars, opts, repo, cache, prev,
                   processCalls>>

procRest == <<loadVars, callVars, ctxErr, newVars, opts, repo, prev, processCalls>>

\* chartutil.ProcessDependencies(holder.chart, values), called when the source
\* asks for it: the collaborator works on the chart in place, it takes the
\* dependencies the values disable out of the chart and puts the values the
\* dependencies export into the chart's. The chart of a source that asks for
\* dependency processing has dependencies.
ProcessDependencies(i) ==
    IF sources[i].ProcessDependencies
    THEN [stats EXCEPT ![i].written = TRUE]
    ELSE stats

\* renderValues, err := r.processValues(ctx, holder, renderTimeValues):
\* the values provider, the merge, the dependencies, the render values.
ProcessValues(g) ==
    /\ pc[g] = "processValues"
    /\ LET i == proc[g].i
           h == sources[i]
           c == h.Chart
           r == h.ReleaseName
       IN \/ /\ h.Values
             /\ SingleFail(g, "values",
                    Wrap("failed to get values for chart", c, r,
                         Wrap("failed to get values for chart", c, r,
                              ErrValuesProvider)),
                    ErrValuesProvider)
             /\ UNCHANGED stats
          \/ /\ h.ProcessDependencies
             /\ SingleFail(g, "dependencies",
                    Wrap("failed to process dependencies for chart", c, r,
                         ErrDependencies),
                    ErrDependencies)
             /\ UNCHANGED stats
          \/ /\ SingleFail(g, "renderValues",
                    Wrap("failed to prepare render values for chart", c, r,
                         ErrRenderValues),
                    ErrRenderValues)
             /\ stats' = ProcessDependencies(i)
          \/ \E sv \in IF h.Values THEN SourceValues ELSE {NoValues} :
                /\ proc' = [proc EXCEPT
                      ![g].renderValues =
                          ToRenderValues(h, DeepMerge(sv, proc[g].rtv)),
                      ![g].seen =
                          IF prev.keep
                          THEN Append(@, [sv |-> sv, rendered |-> FALSE,
                                          files |-> {}])
                          ELSE @,
                      ![g].valued = @ \cup {i}]
                /\ pc' = [pc EXCEPT ![g] =
                            IF opts.Cache THEN "cache.Sync" ELSE "ctx.Err"]
                /\ out' = out
                /\ stats' = ProcessDependencies(i)
    /\ UNCHANGED <<sources, chart, heap, mu, callsMade, callVars, ctxErr,
                   newVars, opts, repo, prev, processCalls, cache>>

\* The spec of the source being processed.
CurrentSpec(g) == ChartSpec(sources[proc[g].i], proc[g].renderValues)
CurrentKey(g) == KeyOf(CurrentSpec(g))

\* Time passes the expiry of an entry. Expiry shows at the sweep and at the
\* lookup only, so time need not pass at any other point of a call.
Expire ==
    /\ opts.Cache
    /\ opts.TTL > 0
    /\ \E g \in Callers : pc[g] \in {"cache.Sync", "cache.Get"}
    /\ \E e \in cache :
        /\ ~e.expired
        /\ cache' = (cache \ {e}) \cup {[e EXCEPT !.expired = TRUE]}
    /\ UNCHANGED <<loadVars, callVars, ctxErr, pc, newVars, opts, repo, proc, out,
                   prev, processCalls>>

(***************************************************************************)
(* The cache (package util/cache): Sync, Get and Set on a set of entries.  *)
(* An entry is [key, spec, value, expired, alias]: key is the key function *)
(* applied to the spec the value was stored for, alias is the set of       *)
(* callers holding objects that share memory with the stored value.        *)
(***************************************************************************)
\* Sync(): expired entries are evicted.
Swept(entries) == {e \in entries : ~e.expired}
\* Get(key): what the lookup may return. An entry that expired since the last
\* sweep may be found or not. The value found is a deep copy of the entry's.
Found(entries, spec) ==
    {[found |-> TRUE, value |-> e.value] :
        e \in {x \in entries : x.key = KeyOf(spec)}}
    \cup IF \A e \in entries : e.key = KeyOf(spec) => e.expired
         THEN {[found |-> FALSE, value |-> <<>>]}
         ELSE {}
\* A Set that keeps the caller's slice: the entry shares it with caller g.
Stored_NoCopy(entries, spec, value, g) ==
    {e \in entries : e.key # KeyOf(spec)}
    \cup {[key |-> KeyOf(spec), spec |-> spec, value |-> value,
           expired |-> FALSE, alias |-> {g}]}
\* Set(spec, value) by caller g: the entry of the spec's key is replaced by
\* a deep copy of the value, which shares nothing with the caller's.
Stored(entries, spec, value, g) ==
    {e \in entries : e.key # KeyOf(spec)}
    \cup {[key |-> KeyOf(spec), spec |-> spec, value |-> value,
           expired |-> FALSE, alias |-> {}]}

\* The lookup without the sweep before it.
CacheSync_Skipped(g) ==
    /\ pc[g] = "cache.Sync"
    /\ cache' = cache
    /\ proc' = [proc EXCEPT ![g].late =
                  \E e \in cache : e.key = CurrentKey(g) /\ e.expired]
    /\ pc' = [pc EXCEPT ![g] = "cache.Get"]
    /\ UNCHANGED <<procRest, out>>

\* r.cache.Sync(): expired entries are evicted.
CacheSync(g) ==
    /\ pc[g] = "cache.Sync"
    /\ cache' = Swept(cache)
    /\ proc' = [proc EXCEPT ![g].late =
                  \E e \in cache : e.key = CurrentKey(g) /\ e.expired]
    /\ pc' = [pc EXCEPT ![g] = "cache.Get"]
    /\ UNCHANGED <<procRest, out>>

\* A lookup behind a cancellation check of its own.
CacheGet_CtxFirst(g) ==
    /\ pc[g] = "cache.Get"
    /\ IF ctxErr[g] # NoError
       THEN SingleFail(g, "context",
                Wrap("context cancelled before render", NoStr, NoStr, ctxErr[g]),
                ctxErr[g])
       ELSE \E got \in Found(cache, CurrentSpec(g)) :
               /\ out' = out
               /\ IF got.found
                  THEN /\ proc' = [proc EXCEPT ![g].objects = got.value,
                                               ![g].hits = @ \cup {proc[g].i}]
                       /\ pc' = [pc EXCEPT ![g] = "pipeline.Apply"]
                  ELSE /\ pc' = [pc EXCEPT ![g] = "ctx.Err"]
                       /\ proc' = proc
    /\ UNCHANGED <<procRest, cache>>

\* A lookup whose result is dropped: the render follows in any case.
CacheGet_Ignored(g) ==
    /\ pc[g] = "cache.Get"
    /\ \E got \in Found(cache, CurrentSpec(g)) :
        /\ pc' = [pc EXCEPT ![g] = "ctx.Err"]
        /\ proc' = proc
    /\ UNCHANGED <<procRest, cache, out>>

\* if cached, found := r.cache.Get(spec); found { return cached, nil }
CacheGet(g) ==
    /\ pc[g] = "cache.Get"
    /\ \E got \in Found(cache, CurrentSpec(g)) :
        IF got.found
        THEN /\ proc' = [proc EXCEPT ![g].objects = got.value,
                                     ![g].hits = @ \cup {proc[g].i}]
             /\ pc' = [pc EXCEPT ![g] = "pipeline.Apply"]
        ELSE /\ pc' = [pc EXCEPT ![g] = "ctx.Err"]
             /\ proc' = proc
    /\ UNCHANGED <<procRest, cache, out>>

\* A processSingle that renders whatever the context says.
RenderCtxCheck_Skipped(g) ==
    /\ pc[g] = "ctx.Err"
    /\ pc' = [pc EXCEPT ![g] = "Render"]
    /\ UNCHANGED <<proc, out>>
    /\ UNCHANGED <<procRest, cache>>

\* if err := ctx.Err(); err != nil { return nil, fmt.Errorf("context
\* cancelled before render: %w", err) }
RenderCtxCheck(g) ==
    /\ pc[g] = "ctx.Err"
    /\ IF ctxErr[g] # NoError
       THEN SingleFail(g, "context",
                Wrap("context cancelled before render", NoStr, NoStr, ctxErr[g]),
                ctxErr[g])
       ELSE /\ pc' = [pc EXCEPT ![g] = "Render"]
            /\ UNCHANGED <<proc, out>>
    /\ UNCHANGED <<procRest, cache>>

\* A render whose failure leaves an empty result in the cache.
Render_StoreOnError(g) ==
    /\ pc[g] = "Render"
    /\ LET h == sources[proc[g].i]
       IN \/ /\ SingleFail(g, "render",
                    Wrap("failed to render chart", h.Chart, h.ReleaseName,
                         ErrRender),
                    ErrRender)
             /\ cache' = IF opts.Cache
                         THEN Stored(cache, CurrentSpec(g), <<>>, g)
                         ELSE cache
          \/ \E files \in RenderOutputs :
                /\ proc' = [proc EXCEPT
                      ![g].files = files,
                      ![g].result = <<>>,
                      ![g].rendered = @ \cup {proc[g].i},
                      ![g].seen =
                          IF prev.keep
                          THEN [@ EXCEPT ![Len(@)].rendered = TRUE,
                                         ![Len(@)].files = files]
                          ELSE @]
                /\ pc' = [pc EXCEPT ![g] = "processCRDs"]
                /\ out' = out
                /\ cache' = cache
    /\ UNCHANGED procRest

\* files, err := r.helmEngine.Render(chart, renderValues)
Render(g) ==
    /\ pc[g] = "Render"
    /\ LET h == sources[proc[g].i]
       IN \/ SingleFail(g, "render",
                 Wrap("failed to render chart", h.Chart, h.ReleaseName, ErrRender),
                 ErrRender)
          \/ \E files \in RenderOutputs :
                /\ proc' = [proc EXCEPT
                      ![g].files = files,
                      ![g].result = <<>>,
                      ![g].rendered = @ \cup {proc[g].i},
                      ![g].seen =
                          IF prev.keep
                          THEN [@ EXCEPT ![Len(@)].rendered = TRUE,
                                         ![Len(@)].files = files]
                          ELSE @]
                /\ pc' = [pc EXCEPT ![g] = "processCRDs"]
                /\ out' = out
    /\ UNCHANGED <<procRest, cache>>

\* crdObjects, err := r.processCRDs(chart, holder);
\* result = append(result, crdObjects...)
ProcessCRDs(g) ==
    /\ pc[g] = "processCRDs"
    /\ LET i == proc[g].i
           text == repo[i]
       IN IF ~Decodes(text)
          THEN SingleFail(g, "decode CRD",
                   Wrap("failed to decode CRD", NoStr, NoStr, ErrDecode), ErrDecode)
          ELSE /\ proc' = [proc EXCEPT ![g].result =
                     @ \o addSourceAnnotations(DecodeYAML(i, "crd", text),
                                               sources[i].Chart, "crd")]
               /\ pc' = [pc EXCEPT ![g] = "processRenderedTemplates"]
               /\ out' = out
    /\ UNCHANGED <<procRest, cache>>

\* for k, v := range files: a Go map is ranged over in an order the language
\* leaves unspecified and the runtime randomizes; any order of the entries.
MapRange(files) ==
    {order \in [1..Cardinality(files) -> files] :
        \A f \in files : \E k \in 1..Cardinality(files) : order[k] = f}

\* The loop of processRenderedTemplates from entry k of the order on, result
\* being the objects so far: files that are not YAML are skipped, the first
\* text that does not decode ends the loop with an error.
RECURSIVE TemplatesFrom(_, _, _, _)
TemplatesFrom(order, k, i, result) ==
    IF k > Len(order) THEN [err |-> NoError, objects |-> result]
    ELSE LET f == order[k]
         IN IF ~IsYAML(f.name) THEN TemplatesFrom(order, k + 1, i, result)
            ELSE IF ~Decodes(f.text)
            THEN [err |-> Wrap("failed to decode", NoStr, NoStr, ErrDecode),
                  objects |-> <<>>]
            ELSE TemplatesFrom(order, k + 1, i,
                     result \o addSourceAnnotations(
                                   DecodeYAML(i, f.name, f.text),
                                   sources[i].Chart, f.name))

\* A processSingle that puts the template objects before the result so far.
ProcessRenderedTemplates_First(g) ==
    /\ pc[g] = "processRenderedTemplates"
    /\ \E order \in MapRange(proc[g].files) :
        LET t == TemplatesFrom(order, 1, proc[g].i, <<>>)
        IN IF t.err # NoError
           THEN SingleFail(g, "decode", t.err, ErrDecode)
           ELSE /\ proc' = [proc EXCEPT ![g].result = t.objects \o @,
                                        ![g].objects = t.objects \o proc[g].result,
                                        ![g].files = {}]
                /\ pc' = [pc EXCEPT ![g] =
                            IF opts.Cache THEN "cache.Set" ELSE "pipeline.Apply"]
                /\ out' = out
    /\ UNCHANGED <<procRest, cache>>

\* templateObjects, err := r.processRenderedTemplates(files, holder);
\* result = append(result, templateObjects...); and, without a cache,
\* return result, nil
ProcessRenderedTemplates(g) ==
    /\ pc[g] = "processRenderedTemplates"
    /\ \E order \in MapRange(proc[g].files) :
        LET t == TemplatesFrom(order, 1, proc[g].i, <<>>)
        IN IF t.err # NoError
           THEN SingleFail(g, "decode", t.err, ErrDecode)
           ELSE /\ proc' = [proc EXCEPT ![g].result = @ \o t.objects,
                                        ![g].objects = proc[g].result \o t.objects,
                                        ![g].files = {}]
                /\ pc' = [pc EXCEPT ![g] =
                            IF opts.Cache THEN "cache.Set" ELSE "pipeline.Apply"]
                /\ out' = out
    /\ UNCHANGED <<procRest, cache>>

\* A store that leaves the entry another call has stored meanwhile.
CacheSet_KeepFirst(g) ==
    /\ pc[g] = "cache.Set"
    /\ cache' = IF \E e \in cache : e.key = CurrentKey(g)
                THEN cache
                ELSE Stored(cache, CurrentSpec(g), proc[g].result, g)
    /\ pc' = [pc EXCEPT ![g] = "pipeline.Apply"]
    /\ UNCHANGED <<procRest, proc, out>>

\* r.cache.Set(spec, result); return result, nil
CacheSet(g) ==
    /\ pc[g] = "cache.Set"
    /\ cache' = Stored(cache, CurrentSpec(g), proc[g].result, g)
    /\ pc' = [pc EXCEPT ![g] = "pipeline.Apply"]
    /\ UNCHANGED <<procRest, proc, out>>

\* pipeline.Apply(ctx, objects, filters, transformers): the objects every
\* filter keeps, each transformer applied to them. The filter "firstDoc" keeps
\* the first document of a file, the transformer "label" sets a label.
Keeps(filter, o) == filter = "firstDoc" => o.doc = 1
Transform(transformer, o) ==
    IF transformer = "label" THEN [o EXCEPT !.lbl = TRUE] ELSE o
RECURSIVE TransformAll(_, _, _)
TransformAll(transformers, k, o) ==
    IF k > Len(transformers) THEN o
    ELSE TransformAll(transformers, k + 1, Transform(transformers[k], o))
PipelineApply(objects, filters, transformers) ==
    LET kept == SelectSeq(objects,
                    LAMBDA o : \A k \in 1..Len(filters) : Keeps(filters[k], o))
    IN [k \in 1..Len(kept) |-> TransformAll(transformers, 1, kept[k])]

\* allObjects = append(transformed, allObjects...): the later source first.
AppendAll_Prepend(allObjects, transformed) == transformed \o allObjects
\* allObjects = append(allObjects, transformed...)
AppendAll(allObjects, transformed) == allObjects \o transformed

\* A Process that takes the entry of a source back when its filters fail.
Apply_EvictOnError(g) ==
    /\ pc[g] = "pipeline.Apply"
    /\ \/ /\ Len(opts.Filters) + Len(opts.Transformers) > 0
          /\ ProcessFail(g, "pipeline",
                 ProcessError(proc[g].i,
                     "error applying filters/transformers to helm chart",
                     ErrFilter),
                 ErrFilter)
          /\ cache' = {e \in cache : e.key # CurrentKey(g)}
       \/ /\ proc' = [proc EXCEPT
                ![g].all = AppendAll(@, PipelineApply(proc[g].objects,
                                         opts.Filters, opts.Transformers)),
                ![g].i = @ + 1,
                ![g].renderValues = NoRenderValues,
                ![g].result = <<>>,
                ![g].objects = <<>>,
                ![g].late = FALSE]
          /\ pc' = [pc EXCEPT ![g] = "Process"]
          /\ out' = out
          /\ cache' = cache
    /\ UNCHANGED procRest

\* A Process that appends the objects of a hit as the cache gave them.
Apply_HitUnfiltered(g) ==
    /\ pc[g] = "pipeline.Apply"
    /\ \/ /\ Len(opts.Filters) + Len(opts.Transformers) > 0
          /\ ProcessFail(g, "pipeline",
                 ProcessError(proc[g].i,
                     "error applying filters/transformers to helm chart",
                     ErrFilter),
                 ErrFilter)
       \/ /\ proc' = [proc EXCEPT
                ![g].all = AppendAll(@,
                    IF proc[g].i \in proc[g].hits THEN proc[g].objects
                    ELSE PipelineApply(proc[g].objects,
                                       opts.Filters, opts.Transformers)),
                ![g].i = @ + 1,
                ![g].renderValues = NoRenderValues,
                ![g].result = <<>>,
                ![g].objects = <<>>,
                ![g].late = FALSE]
          /\ pc' = [pc EXCEPT ![g] = "Process"]
          /\ out' = out
    /\ UNCHANGED <<procRest, cache>>

\* transformed, err := pipeline.Apply(...); a filter or a transformer may
\* fail; allObjects = append(allObjects, transformed...); next source.
Apply(g) ==
    /\ pc[g] = "pipeline.Apply"
    /\ \/ /\ Len(opts.Filters) + Len(opts.Transformers) > 0
          /\ ProcessFail(g, "pipeline",
                 ProcessError(proc[g].i,
                     "error applying filters/transformers to helm chart",
                     ErrFilter),
                 ErrFilter)
       \/ /\ proc' = [proc EXCEPT
                ![g].all = AppendAll(@, PipelineApply(proc[g].objects,
                                         opts.Filters, opts.Transformers)),
                ![g].i = @ + 1,
                ![g].renderValues = NoRenderValues,
                ![g].result = <<>>,
                ![g].objects = <<>>,
                ![g].late = FALSE]
          /\ pc' = [pc EXCEPT ![g] = "Process"]
          /\ out' = out
    /\ UNCHANGED <<procRest, cache>>

\* The caller changes the objects it was given, as result[0].SetName(...)
\* does: the change shows in every object that shares their memory.
Touched(o, objects) ==
    \E k \in 1..Len(objects) :
        /\ objects[k].src = o.src
        /\ objects[k].file = o.file
        /\ objects[k].doc = o.doc
Mutate(g) ==
    /\ pc[g] = "returned"
    /\ out[g].err = NoError
    /\ out[g].objects # <<>>
    /\ ~out[g].mutated
    /\ out' = [out EXCEPT
          ![g].mutated = TRUE,
          ![g].objects = [k \in 1..Len(@) |-> [@[k] EXCEPT !.mod = TRUE]]]
    /\ cache' = {IF g \in e.alias
                 THEN [e EXCEPT !.value =
                         [k \in 1..Len(@) |->
                            IF Touched(@[k], out[g].objects)
                            THEN [@[k] EXCEPT !.mod = TRUE] ELSE @[k]]]
                 ELSE e : e \in cache}
    /\ UNCHANGED <<procRest, pc, proc>>

\* The caller takes what Process returned; it may call again.
ProcessReturn(g) ==
    /\ pc[g] = "returned"
    /\ pc' = [pc EXCEPT ![g] = "idle"]
    /\ prev' = IF prev.keep /\ ~prev.set /\ out[g].err = NoError
               THEN [prev EXCEPT !.set = TRUE, !.rtv = out[g].rtv,
                                 !.seen = out[g].seen,
                                 !.objects = out[g].partial]
               ELSE prev
    /\ out' = [out EXCEPT ![g] = NoOut]
    /\ ctxErr' = [ctxErr EXCEPT ![g] = NoError]
    /\ UNCHANGED <<loadVars, callVars, newVars, opts, repo, cache, proc,
                   processCalls>>

Next ==
    \/ \E g \in Callers :
        \/ ProcessCall(g)
        \/ Cancel(g)
        \/ ProcessLoop(g)
        \/ RLock(g)
        \/ FastPath(g)
        \/ Lock(g)
        \/ DoubleCheck(g)
        \/ CtxCheck(g)
        \/ CreateChartPathOptions(g)
        \/ LocateChart(g)
        \/ Load(g)
        \/ AfterLoadChart(g)
        \/ ProcessValues(g)
        \/ CacheSync(g)
        \/ CacheGet(g)
        \/ RenderCtxCheck(g)
        \/ Render(g)
        \/ ProcessCRDs(g)
        \/ ProcessRenderedTemplates(g)
        \/ CacheSet(g)
        \/ Apply(g)
        \/ Mutate(g)
        \/ ProcessReturn(g)
    \/ Expire

Spec == Init /\ [][Next]_vars

\* The same renderer, the inputs and the result of the first successful call
\* kept for comparison with later calls.
InitKeep == InitWith(TRUE)
SpecKeep == InitKeep /\ [][Next]_vars

(***************************************************************************)
(* Claims about Process (Spec, SpecKeep).                                  *)
(***************************************************************************)
ProcessReturned(g) == pc[g] = "returned" /\ out[g].returned
ProcessFailed(g) == ProcessReturned(g) /\ out[g].err # NoError

\* C4: Process is all-or-nothing. A call that returns an error returns a nil
\* object list, whatever the sources before the failing one produced, and a
\* call returns objects only with no error and after every source's objects
\* were appended.
C4_AllOrNothing ==
    \A g \in Callers :
        ProcessReturned(g) =>
            /\ out[g].err # NoError => out[g].nil /\ out[g].objects = <<>>
            /\ ~out[g].nil =>
                  /\ out[g].err = NoError
                  /\ out[g].done = Len(sources)
                  /\ ~out[g].mutated => out[g].objects = out[g].partial

\* The last source fails in the last step, the filters, after the sources
\* before it gave objects; nothing is returned.
C4_Witness ==
    \E g \in Callers :
        /\ ProcessFailed(g)
        /\ out[g].at = Len(sources)
        /\ out[g].step = "pipeline"
        /\ out[g].partial # <<>>
        /\ out[g].nil

\* C5: every error Process returns carries, in its outermost layer, the chart
\* and the release name of the source that failed, which is the first to fail
\* (all sources before it were processed to the end), and the original error of
\* the collaborator that failed, a values or credentials provider included,
\* is found by errors.Is in the chain.
C5_ErrorNamesSourceAndWrapsCause ==
    \A g \in Callers :
        ProcessFailed(g) =>
            /\ out[g].at \in DOMAIN sources
            /\ out[g].err[1].chart = sources[out[g].at].Chart
            /\ out[g].err[1].release = sources[out[g].at].ReleaseName
            /\ out[g].done = out[g].at - 1
            /\ out[g].cause # NoError
            /\ ErrorsIs(out[g].err, out[g].cause)
            /\ out[g].step = "values" => out[g].cause = ErrValuesProvider

\* The credentials provider of the second source fails after the first source
\* was processed: the error names the second source and holds the provider's
\* error.
C5_Witness ==
    \E g \in Callers :
        /\ ProcessFailed(g)
        /\ out[g].at = 2
        /\ out[g].step = "load"
        /\ out[g].cause = ErrCredentialsProvider
        /\ ErrorsIs(out[g].err, ErrCredentialsProvider)
        /\ out[g].err[1].chart = sources[2].Chart
        /\ out[g].err[1].release = sources[2].ReleaseName

\* No object of a later source precedes an object of an earlier one.
InSourceOrder(objects) ==
    \A k, l \in 1..Len(objects) : k < l => objects[k].src <= objects[l].src
\* The sources the objects come from.
SourcesOf(objects) == {objects[k].src : k \in 1..Len(objects)}

\* C6: a Process call handles the sources one after another in configuration
\* order: while source i is being processed the objects collected so far are
\* those of the sources before i, the objects in the making are those of i,
\* and the list returned is in source order, made of every source's objects
\* after the filters and transformers.
C6_SourcesInConfigurationOrder ==
    \A g \in Callers :
        /\ InSourceOrder(proc[g].all)
        /\ InSourceOrder(out[g].objects)
        /\ SourcesOf(proc[g].all) \subseteq 1..(proc[g].i - 1)
        /\ SourcesOf(proc[g].result \o proc[g].objects) \subseteq {proc[g].i}
        /\ pc[g] \notin {"idle", "Process", "returned"} =>
              /\ proc[g].i \in DOMAIN sources
              /\ target[g] \in {1, proc[g].i}
        /\ ProcessReturned(g) /\ out[g].err = NoError =>
              /\ out[g].done = Len(sources)
              /\ \A k \in 1..Len(out[g].objects) :
                    \A f \in 1..Len(opts.Filters) :
                        Keeps(opts.Filters[f], out[g].objects[k])

\* A call returns objects of the first and of the second source.
C6_Witness ==
    \E g \in Callers :
        /\ ProcessReturned(g)
        /\ out[g].err = NoError
        /\ {1, 2} \subseteq SourcesOf(out[g].objects)

\* C7: two successful Process calls given the same call-time values, whose
\* values providers returned the same values and whose render calls returned
\* the same files for the same sources, return the same objects in the same
\* order.
C7_DeterministicOrder ==
    \A g \in Callers :
        ( /\ ProcessReturned(g)
          /\ out[g].err = NoError
          /\ ~out[g].mutated
          /\ prev.set
          /\ prev.rtv = out[g].rtv
          /\ prev.seen = out[g].seen )
        => out[g].objects = prev.objects

\* No object of the list was changed by a caller.
Untouched(objects) == \A k \in 1..Len(objects) : ~objects[k].mod

\* C11: what a caller does to the objects Process returned to it shows nowhere
\* else: no cache entry shares memory with a caller's objects or holds a
\* changed object, and the objects of a call in progress and those a call
\* has just returned, from the cache or freshly rendered and stored, are
\* unchanged.
C11_ResultsIsolatedFromCache ==
    /\ \A e \in cache : e.alias = {} /\ Untouched(e.value)
    /\ \A g \in Callers :
        /\ Untouched(proc[g].objects)
        /\ Untouched(proc[g].result)
        /\ Untouched(proc[g].all)
        /\ ProcessReturned(g) /\ ~out[g].mutated => Untouched(out[g].objects)
    /\ Untouched(prev.objects)

\* A caller has changed the objects of a call that took one source from the
\* cache and rendered and stored another.
C11_Witness ==
    \E g \in Callers :
        /\ ProcessReturned(g)
        /\ out[g].mutated
        /\ out[g].hits # {}
        /\ out[g].hits # DOMAIN sources
        /\ \E e \in cache : Touched(e.value[1], out[g].objects)

\* The entries a lookup of the key must find: those not expired.
Live(key) == {e \in cache : e.key = key /\ ~e.expired}

\* C12: with a cache, a lookup made while the entry of the derived key has not
\* expired ends processSingle with objects equal to the stored ones, and the
\* render collaborator is not called for a source served from the cache.
C12_HitReturnsStoredWithoutRender ==
    [][\A g \in Callers :
        /\ proc'[g].hits \cap proc'[g].rendered = {}
        /\ ( /\ pc[g] = "cache.Get"
             /\ pc'[g] # "cache.Get"
             /\ Live(CurrentKey(g)) # {} )
           => /\ pc'[g] = "pipeline.Apply"
              /\ proc[g].i \in proc'[g].hits
              /\ \E e \in Live(CurrentKey(g)) : proc'[g].objects = e.value]_vars

\* A later call finds the entry an earlier call stored.
C12_Witness ==
    \E g \in Callers :
        /\ pc[g] = "pipeline.Apply"
        /\ processCalls >= 2
        /\ proc[g].i \in proc[g].hits
        /\ proc[g].i \notin proc[g].rendered
        /\ \E e \in Live(CurrentKey(g)) :
              proc[g].objects = e.value /\ e.value # <<>>

\* C13: with a positive TTL, a lookup finds the entry stored for its key as
\* long as the entry has not expired, and a call whose sweep comes after the
\* entry expired does not get it: the sweep, which comes before every lookup,
\* evicts it, the lookup misses and the source is not served from the cache
\* but goes on to the render.
C13_ExpiredEntryIsSweptBeforeLookup ==
    [][\A g \in Callers :
        /\ pc'[g] = "cache.Get" => pc[g] \in {"cache.Sync", "cache.Get"}
        /\ (pc[g] = "cache.Sync" /\ pc'[g] = "cache.Get") =>
              \A e \in cache : e.expired => e \notin cache'
        /\ (pc[g] = "cache.Get" /\ pc'[g] # "cache.Get") =>
              /\ Live(CurrentKey(g)) # {} => pc'[g] = "pipeline.Apply"
              /\ proc[g].late =>
                    /\ pc'[g] = "ctx.Err"
                    /\ proc[g].i \notin proc'[g].hits]_vars

\* A second call, its sweep made after the entry of its key expired, has
\* missed and is about to render again.
C13_Witness ==
    \E g \in Callers :
        /\ opts.TTL > 0
        /\ processCalls >= 2
        /\ pc[g] = "Render"
        /\ proc[g].late
        /\ proc[g].i \notin proc[g].hits

\* Two specs of the same chart, release name and version.
SameRelease(s, t) ==
    /\ s.Chart = t.Chart
    /\ s.ReleaseName = t.ReleaseName
    /\ s.ReleaseVersion = t.ReleaseVersion

DistinctReleases ==
    \A i, j \in DOMAIN sources :
        i # j => ~SameRelease(ProcSource(i), ProcSource(j))

\* C15: with the fast key, a lookup made while an entry of the same chart,
\* release name and version has not expired is served that entry's objects
\* without a render, whatever values the entry was stored for; a call that
\* every source of is served so returns the objects of the call that stored
\* them, also when its call-time values are other ones.
C15_FastKeyIgnoresValues ==
    [][\A g \in Callers :
        opts.KeyFunc = "fast" =>
            /\ \A e \in cache :
                  (pc[g] = "cache.Get" /\ pc'[g] # "cache.Get"
                   /\ ~e.expired /\ SameRelease(e.spec, CurrentSpec(g)))
                  => /\ pc'[g] = "pipeline.Apply"
                     /\ proc'[g].objects = e.value
                     /\ proc[g].i \in proc'[g].hits
                     /\ proc[g].i \notin proc'[g].rendered
            /\ ( /\ pc'[g] = "returned"
                 /\ out'[g].err = NoError
                 /\ ~out'[g].mutated
                 /\ prev.set
                 /\ DistinctReleases
                 /\ out'[g].hits = DOMAIN sources )
               => /\ out'[g].rendered = {}
                  /\ out'[g].objects = prev.objects]_vars

\* A second call, its call-time values other than the first call's, has
\* returned the first call's objects, every source served from the cache.
C15_Witness ==
    \E g \in Callers :
        /\ opts.KeyFunc = "fast"
        /\ ProcessReturned(g)
        /\ out[g].err = NoError
        /\ ~out[g].mutated
        /\ prev.set
        /\ prev.rtv # out[g].rtv
        /\ DistinctReleases
        /\ out[g].hits = DOMAIN sources
        /\ out[g].rendered = {}
        /\ out[g].objects = prev.objects
        /\ out[g].objects # <<>>

(***************************************************************************)
(* The key functions on their own (SpecKeys): each is called on two specs. *)
(***************************************************************************)
\* Charts are paths or references, "oci://registry/chart:tag" among them: a
\* chart may hold a colon.
KeyCharts == {<<"a">>, <<"b">>, <<"a", ":", "b">>, <<"a", ":", "0">>}
\* A release name is of lowercase letters, digits and hyphens; a version is
\* any string, a constraint or a tag, no check is made of it.
KeyReleaseNames == {<<"z">>, <<"0">>}
KeyVersions == {NoStr, <<"b">>, <<"1">>, <<"z", ":", "1">>}
KeySpecs ==
    {[Chart |-> c, ReleaseName |-> r, ReleaseVersion |-> v, Values |-> x] :
        c \in KeyCharts, r \in KeyReleaseNames, v \in KeyVersions,
        x \in RenderTimeValues}

InitKeys ==
    /\ \E s, t \in KeySpecs :
          calc = [fn |-> "none", pc |-> "args", s |-> s, t |-> t,
                  ks |-> NoStr, kt |-> NoStr]
    /\ inputs = <<>>
    /\ ctor = NoCtor
    /\ sources = <<>>
    /\ chart = <<>>
    /\ heap = 0
    /\ mu = <<>>
    /\ pc = [g \in Goroutines |-> "idle"]
    /\ target = [g \in Goroutines |-> 1]
    /\ ctxErr = [g \in Goroutines |-> NoError]
    /\ ret = [g \in Goroutines |-> NoRet]
    /\ trace = [g \in Goroutines |-> <<>>]
    /\ atEntry = [g \in Goroutines |-> NoChart]
    /\ stats = <<>>
    /\ callsMade = 0
    /\ NoProcess

notCalc == <<sources, chart, heap, mu, pc, target, ctxErr, ret, trace, atEntry,
             stats, callsMade, inputs, ctor, procVars>>

\* DefaultCacheKey()(spec)
CallDefaultCacheKey ==
    /\ calc.pc = "args"
    /\ calc' = [calc EXCEPT !.fn = "DefaultCacheKey", !.pc = "returned",
                            !.ks = DefaultCacheKey(calc.s),
                            !.kt = DefaultCacheKey(calc.t)]
    /\ UNCHANGED notCalc

\* FastCacheKeyFunc(spec)
CallFastCacheKeyFunc ==
    /\ calc.pc = "args"
    /\ calc' = [calc EXCEPT !.fn = "FastCacheKeyFunc", !.pc = "returned",
                            !.ks = FastCacheKeyFunc(calc.s),
                            !.kt = FastCacheKeyFunc(calc.t)]
    /\ UNCHANGED notCalc

\* ChartOnlyCacheKey()(spec)
CallChartOnlyCacheKey ==
    /\ calc.pc = "args"
    /\ calc' = [calc EXCEPT !.fn = "ChartOnlyCacheKey", !.pc = "returned",
                            !.ks = ChartOnlyCacheKey(calc.s),
                            !.kt = ChartOnlyCacheKey(calc.t)]
    /\ UNCHANGED notCalc

NextKeys ==
    \/ CallDefaultCacheKey
    \/ CallFastCacheKeyFunc
    \/ CallChartOnlyCacheKey

SpecKeys == InitKeys /\ [][NextKeys]_vars

\* C16: the identity-only key depends on chart and version only. It is the
\* chart alone when the version is empty; two specs of the same chart and
\* version have the same key, whatever their release names and values; two
\* specs that differ in chart or in version have different keys.
C16_ChartOnlyKeyTellsChartAndVersion ==
    (calc.fn = "ChartOnlyCacheKey" /\ calc.pc = "returned") =>
        /\ calc.s.ReleaseVersion = NoStr => calc.ks = calc.s.Chart
        /\ ( /\ calc.s.Chart = calc.t.Chart
             /\ calc.s.ReleaseVersion = calc.t.ReleaseVersion )
           => calc.ks = calc.kt
        /\ ( \/ calc.s.Chart # calc.t.Chart
             \/ calc.s.ReleaseVersion # calc.t.ReleaseVersion )
           => calc.ks # calc.kt

\* C40: the fast key keeps identities apart: two specs that differ in chart,
\* in release name or in version, the release names being valid ones, have
\* different fast keys.
C40_FastKeyTellsIdentitiesApart ==
    (calc.fn = "FastCacheKeyFunc" /\ calc.pc = "returned") =>
        (( /\ WellFormedName(calc.s.ReleaseName)
           /\ WellFormedName(calc.t.ReleaseName)
           /\ NonBlank(calc.s.Chart)
           /\ NonBlank(calc.t.Chart)
           /\ ~SameRelease(calc.s, calc.t) )
         => calc.ks # calc.kt)

\* The renderer is the one New builds when no option supplies cache options.
Uncached ==
    opts = RendererWith(opts.Filters, opts.Transformers, opts.SourceAnnotations,
                        NoCacheOptions)

\* C17: a renderer built without cache options holds no cache. Its calls
\* never reach the sweep, the lookup or the store, nothing is ever stored, the
\* render collaborator is called once for each source in turn, and a call
\* that returns objects has rendered every source and got none from a cache,
\* whatever calls came before it.
C17_NoCacheOptionsNoCache ==
    [][\A g \in Callers :
        Uncached =>
            /\ ~opts.Cache
            /\ cache' = {}
            /\ pc'[g] \notin {"cache.Sync", "cache.Get", "cache.Set"}
            /\ proc'[g].hits = {}
            /\ \A i \in proc'[g].rendered \ proc[g].rendered :
                  pc[g] = "Render" /\ i = proc[g].i
            /\ (pc[g] = "Render" /\ pc'[g] = "processCRDs") =>
                  /\ proc[g].i \notin proc[g].rendered
                  /\ proc'[g].rendered = proc[g].rendered \cup {proc[g].i}
            /\ (pc'[g] = "returned" /\ out'[g].err = NoError) =>
                  /\ out'[g].rendered = DOMAIN sources
                  /\ out'[g].hits = {}]_vars

\* Without cache options, a second call, given the same call-time values as
\* the first and its sources the same values from their providers, has
\* rendered every source again.
C17_Witness ==
    \E g \in Callers :
        /\ Uncached
        /\ ProcessReturned(g)
        /\ out[g].err = NoError
        /\ processCalls = MaxProcessCalls
        /\ prev.set
        /\ prev.rtv = out[g].rtv
        /\ \A i \in DOMAIN sources : prev.seen[i].sv = out[g].seen[i].sv
        /\ out[g].rendered = DOMAIN sources
        /\ out[g].hits = {}
        /\ cache = {}

(***************************************************************************)
(* Renderer.values on its own (SpecMerge): the values of one source, on    *)
(* trees of values. A tree is a map from keys to nodes; a node is a        *)
(* scalar, a list or a map from keys to leaves; a key a map does not have  *)
(* holds the absent node. A map is nil or not.                             *)
(***************************************************************************)
TopKeys == {"a", "b"}
SubKeys == {"x", "y"}
AbsentLeaf == [kind |-> "absent", s |-> 0, l |-> <<>>]
Scalar(n) == [kind |-> "scalar", s |-> n, l |-> <<>>]
List(l) == [kind |-> "list", s |-> 0, l |-> l]
NoSub == [j \in SubKeys |-> AbsentLeaf]
LeafNode(x) == [kind |-> x.kind, s |-> x.s, l |-> x.l, sub |-> NoSub]
MapNode(sub) == [kind |-> "map", s |-> 0, l |-> <<>>, sub |-> sub]
AbsentNode == LeafNode(AbsentLeaf)
\* map[string]any(nil) and map[string]any{}
NilMap == [nil |-> TRUE, m |-> [k \in TopKeys |-> AbsentNode]]
EmptyMap == [nil |-> FALSE, m |-> [k \in TopKeys |-> AbsentNode]]

\* The leaves of the trees a values provider returns and of those a caller
\* passes: they differ, so that a merged tree shows which side a value is of.
BaseLeaves == {AbsentLeaf, Scalar(1), List(<<1, 2>>)}
OverrideLeaves == {AbsentLeaf, Scalar(2), List(<<3>>)}
Nodes(leaves) ==
    {LeafNode(x) : x \in leaves} \cup {MapNode(sub) : sub \in [SubKeys -> leaves]}
Trees(leaves) ==
    {NilMap} \cup {[nil |-> FALSE, m |-> m] : m \in [TopKeys -> Nodes(leaves)]}

\* util.DeepMerge(base, override) on trees: the override's value, but for a
\* key the override does not have, and for two maps the merge of the two.
MergeLeaf(b, o) == IF o.kind = "absent" THEN b ELSE o
MergeNode(b, o) ==
    IF o.kind = "absent" THEN b
    ELSE IF b.kind = "map" /\ o.kind = "map"
         THEN MapNode([j \in SubKeys |-> MergeLeaf(b.sub[j], o.sub[j])])
         ELSE o
Merge(base, override) ==
    [nil |-> FALSE, m |-> [k \in TopKeys |-> MergeNode(base.m[k], override.m[k])]]

\* The holder of the call: whether the source has a values provider, whether
\* the provider fails, and the tree it returns.
MergeHolders ==
    {[Chart |-> <<"c">>, ReleaseName |-> <<"r">>, Values |-> FALSE,
      fails |-> FALSE, returns |-> NilMap]}
    \cup {[Chart |-> <<"c">>, ReleaseName |-> <<"r">>, Values |-> TRUE,
           fails |-> TRUE, returns |-> NilMap]}
    \cup {[Chart |-> <<"c">>, ReleaseName |-> <<"r">>, Values |-> TRUE,
           fails |-> FALSE, returns |-> v] : v \in Trees(BaseLeaves)}

\* values with the call-time values as the base of the merge.
values_SourceWins(holder, renderTimeValues) ==
    IF holder.Values /\ holder.fails
    THEN [values |-> NilMap,
          err |-> Wrap("failed to get values for chart", holder.Chart,
                       holder.ReleaseName, ErrValuesProvider)]
    ELSE LET sourceValues ==
                 IF holder.Values /\ ~holder.returns.nil
                 THEN holder.returns ELSE EmptyMap
         IN [values |-> Merge(renderTimeValues, sourceValues), err |-> NoError]
\* values that leaves what the provider returned aside.
values_NoSource(holder, renderTimeValues) ==
    IF holder.Values /\ holder.fails
    THEN [values |-> NilMap,
          err |-> Wrap("failed to get values for chart", holder.Chart,
                       holder.ReleaseName, ErrValuesProvider)]
    ELSE [values |-> Merge(EmptyMap, renderTimeValues), err |-> NoError]
\* values that takes a provider's nil for a failure.
values_NilFails(holder, renderTimeValues) ==
    IF holder.Values /\ (holder.fails \/ holder.returns.nil)
    THEN [values |-> NilMap,
          err |-> Wrap("failed to get values for chart", holder.Chart,
                       holder.ReleaseName, ErrValuesProvider)]
    ELSE LET sourceValues == IF holder.Values THEN holder.returns ELSE EmptyMap
         IN [values |-> Merge(sourceValues, renderTimeValues), err |-> NoError]
\* sourceValues := map[string]any{};
\* if holder.Values != nil { v, err := holder.Values(ctx); if err != nil
\* { return nil, fmt.Errorf(...) }; if v != nil { sourceValues = v } };
\* return util.DeepMerge(sourceValues, renderTimeValues), nil
values(holder, renderTimeValues) ==
    IF holder.Values /\ holder.fails
    THEN [values |-> NilMap,
          err |-> Wrap("failed to get values for chart", holder.Chart,
                       holder.ReleaseName, ErrValuesProvider)]
    ELSE LET sourceValues ==
                 IF holder.Values /\ ~holder.returns.nil
                 THEN holder.returns ELSE EmptyMap
         IN [values |-> Merge(sourceValues, renderTimeValues), err |-> NoError]

InitMerge ==
    /\ \E h \in MergeHolders, rtv \in Trees(OverrideLeaves) :
          calc = [fn |-> "none", pc |-> "args", holder |-> h,
                  renderTimeValues |-> rtv,
                  ret |-> [values |-> NilMap, err |-> NoError]]
    /\ inputs = <<>>
    /\ ctor = NoCtor
    /\ sources = <<>>
    /\ chart = <<>>
    /\ heap = 0
    /\ mu = <<>>
    /\ pc = [g \in Goroutines |-> "idle"]
    /\ target = [g \in Goroutines |-> 1]
    /\ ctxErr = [g \in Goroutines |-> NoError]
    /\ ret = [g \in Goroutines |-> NoRet]
    /\ trace = [g \in Goroutines |-> <<>>]
    /\ atEntry = [g \in Goroutines |-> NoChart]
    /\ stats = <<>>
    /\ callsMade = 0
    /\ NoProcess

\* r.values(ctx, holder, renderTimeValues)
CallValues ==
    /\ calc.pc = "args"
    /\ calc' = [calc EXCEPT !.fn = "values", !.pc = "returned",
                            !.ret = values(calc.holder, calc.renderTimeValues)]
    /\ UNCHANGED notCalc

NextMerge == CallValues

SpecMerge == InitMerge /\ [][NextMerge]_vars

\* values has returned merged values.
ValuesReturned ==
    calc.fn = "values" /\ calc.pc = "returned" /\ calc.ret.err = NoError
\* The tree the source's provider gave: the empty map when the source has no
\* provider or the provider returned nil.
Dynamic ==
    IF calc.holder.Values /\ ~calc.holder.returns.nil
    THEN calc.holder.returns ELSE EmptyMap

\* What the merge of base value b and override value o is to be, for values
\* that are not both maps: the one there is when only one side has the key,
\* the override's whole when both have.
OneSideOrOverride(b, o, r) ==
    /\ o.kind = "absent" => r = b
    /\ b.kind = "absent" => r = o
    /\ (b.kind # "absent" /\ o.kind # "absent") => r = o

\* C19: the values of a source are the deep merge of what its provider
\* returned, as the base, with the call-time values, as the override. A key
\* only one side has keeps that side's value; a key both sides have a map
\* for holds the merge of the two maps, by the same rule; a key both sides
\* have, one of them not a map, holds the call-time value whole, a list
\* replacing a list.
C19_DeepMergeCallTimeOverSource ==
    ValuesReturned =>
        LET b == Dynamic
            o == calc.renderTimeValues
            r == calc.ret.values
        IN /\ ~r.nil
           /\ \A k \in TopKeys :
                 IF b.m[k].kind = "map" /\ o.m[k].kind = "map"
                 THEN /\ r.m[k].kind = "map"
                      /\ \A j \in SubKeys :
                            OneSideOrOverride(b.m[k].sub[j], o.m[k].sub[j],
                                              r.m[k].sub[j])
                 ELSE OneSideOrOverride(b.m[k], o.m[k], r.m[k])

\* Source values {a: [1, 2], b: {x: 1, y: [1, 2]}} merged with call-time
\* values {a: [3], b: {y: 2}} are {a: [3], b: {x: 1, y: 2}}.
C19_Witness ==
    /\ ValuesReturned
    /\ calc.holder.returns =
          [nil |-> FALSE,
           m |-> [k \in TopKeys |->
                    IF k = "a" THEN LeafNode(List(<<1, 2>>))
                    ELSE MapNode([j \in SubKeys |->
                            IF j = "x" THEN Scalar(1) ELSE List(<<1, 2>>)])]]
    /\ calc.renderTimeValues =
          [nil |-> FALSE,
           m |-> [k \in TopKeys |->
                    IF k = "a" THEN LeafNode(List(<<3>>))
                    ELSE MapNode([j \in SubKeys |->
                            IF j = "x" THEN AbsentLeaf ELSE Scalar(2)])]]
    /\ calc.ret.values =
          [nil |-> FALSE,
           m |-> [k \in TopKeys |->
                    IF k = "a" THEN LeafNode(List(<<3>>))
                    ELSE MapNode([j \in SubKeys |->
                            IF j = "x" THEN Scalar(1) ELSE Scalar(2)])]]

\* C20: with nil call-time values, and with empty ones, the values of a
\* source are the tree its provider returned, whatever the tree; they are
\* the empty map when the source has no provider or the provider returned
\* nil.
C20_NilCallTimeValuesKeepSourceValues ==
    ( /\ ValuesReturned
      /\ calc.renderTimeValues \in {NilMap, EmptyMap} )
    => /\ calc.ret.values = Dynamic
       /\ (calc.holder.Values /\ ~calc.holder.returns.nil)
             => calc.ret.values = calc.holder.returns

\* values was given nil call-time values and a provider's tree with a
\* scalar, a list and a map in it, and returned that tree.
C20_Witness ==
    /\ ValuesReturned
    /\ calc.renderTimeValues = NilMap
    /\ calc.holder.Values
    /\ calc.ret.values = calc.holder.returns
    /\ calc.holder.returns.m["a"].kind = "map"
    /\ calc.holder.returns.m["a"].sub["x"].kind = "scalar"
    /\ calc.holder.returns.m["a"].sub["y"].kind = "list"
    /\ calc.holder.returns.m["b"].kind = "scalar"

\* The source of the call gives no values: it has no provider, or its
\* provider returned nil and no error.
NoSourceValues ==
    /\ calc.fn = "values"
    /\ calc.pc = "returned"
    /\ \/ ~calc.holder.Values
       \/ (~calc.holder.fails /\ calc.holder.returns.nil)

\* C21: for a source without values provider, and for one whose provider
\* returned nil and no error, values returns no error and the merged values
\* hold the call-time values, key for key, and nothing else: they are the
\* empty map when the call-time values are nil or empty.
C21_NoSourceValuesIsEmptyMap ==
    NoSourceValues =>
        /\ calc.ret.err = NoError
        /\ ~calc.ret.values.nil
        /\ calc.ret.values.m = calc.renderTimeValues.m

\* The provider returned nil, the call-time values hold a scalar and a map,
\* and the merged values are the call-time values.
C21_Witness ==
    /\ NoSourceValues
    /\ calc.holder.Values
    /\ calc.holder.returns = NilMap
    /\ calc.renderTimeValues.m["a"].kind = "scalar"
    /\ calc.renderTimeValues.m["b"].kind = "map"
    /\ calc.renderTimeValues.m["b"].sub["x"].kind = "list"
    /\ calc.ret.err = NoError
    /\ calc.ret.values.m = calc.renderTimeValues.m

(***************************************************************************)
(* More claims about LoadChart (SpecLoad).                                 *)
(***************************************************************************)
\* The collaborators of a load attempt, as a call's trace names them.
LoadSteps == {"creds", "locate", "load"}
Invoked(g) == {trace[g][n] : n \in DOMAIN trace[g]} \cap LoadSteps

\* C22: a LoadChart call that reaches the context check of the slow path, the
\* holder unloaded, with a context cancelled or past its deadline returns no
\* chart and an error wrapping the context's error, at that step: it
\* invokes neither the credentials provider nor locate nor load, the holder
\* stays unloaded, no attempt is counted and the lock is released.
C22_CancelledBeforeLoadFailsWithoutLoading ==
    [][\A g \in Goroutines :
        (pc[g] = "CtxCheck" /\ pc'[g] # "CtxCheck" /\ ctxErr[g] # NoError) =>
            /\ chart[target[g]] = NoChart
            /\ pc'[g] = "done"
            /\ ret'[g].chart = NoChart
            /\ ErrorsIs(ret'[g].err, ctxErr[g])
            /\ Invoked(g) = {}
            /\ trace'[g] = trace[g]
            /\ chart' = chart
            /\ heap' = heap
            /\ stats' = stats
            /\ mu'[target[g]].writer = NoGoroutine]_vars

\* A call has returned the cancellation of its context, nothing invoked and
\* the holder unloaded.
C22_Witness ==
    \E g \in Goroutines :
        /\ pc[g] = "done"
        /\ ctxErr[g] # NoError
        /\ ret[g].chart = NoChart
        /\ ErrorsIs(ret[g].err, ctxErr[g])
        /\ trace[g] = <<>>
        /\ chart[target[g]] = NoChart

(***************************************************************************)
(* More claims about Process (Spec, SpecKeep).                             *)
(***************************************************************************)
\* C23: the render collaborator is reached only through the checkpoint before
\* it, the context live there. A call that reaches the checkpoint with a
\* context cancelled or past its deadline does not go on to the render: it
\* returns nil and an error that wraps the context's error, the source not
\* rendered.
C23_RenderGuardedByCancellationCheck ==
    [][\A g \in Callers :
        /\ (pc'[g] = "Render" /\ pc[g] # "Render") =>
              (pc[g] = "ctx.Err" /\ ctxErr[g] = NoError)
        /\ (pc[g] = "ctx.Err" /\ pc'[g] # "ctx.Err" /\ ctxErr[g] # NoError) =>
              /\ pc'[g] = "returned"
              /\ out'[g].nil
              /\ out'[g].objects = <<>>
              /\ ErrorsIs(out'[g].err, ctxErr[g])
              /\ ctxErr[g] \in {Canceled, DeadlineExceeded}
              /\ out'[g].at = proc[g].i
              /\ proc[g].i \notin proc[g].rendered]_vars

\* A call whose context was cancelled has returned from the checkpoint before
\* the render of its second source, the first one rendered.
C23_Witness ==
    \E g \in Callers :
        /\ ProcessFailed(g)
        /\ out[g].step = "context"
        /\ out[g].at = Len(sources)
        /\ out[g].partial # <<>>
        /\ ErrorsIs(out[g].err, Canceled)
        /\ out[g].nil

\* How many times a call's trace names a step.
Count(t, step) == Cardinality({n \in DOMAIN t : t[n] = step})

\* C25: the credentials provider of a source is invoked in the load attempt
\* only: by a call that holds the holder's write lock, the holder unloaded,
\* and once in the attempt. A call that goes on to locate has invoked it
\* once when the source has a provider and not at all when it has none, and
\* no call invokes it on a loaded holder.
C25_CredentialsOnlyInLoadAttempt ==
    [][\A g \in Goroutines :
        LET h == target[g] IN
        /\ Count(trace'[g], "creds") > Count(trace[g], "creds") =>
              /\ pc[g] = "ChartPathOptions"
              /\ sources[h].Credentials
              /\ mu[h].writer = g
              /\ mu[h].readers = {}
              /\ chart[h] = NoChart
              /\ Count(trace[g], "creds") = 0
              /\ Count(trace'[g], "creds") = 1
        /\ (pc[g] = "ChartPathOptions" /\ pc'[g] = "LocateChart") =>
              Count(trace'[g], "creds") = IF sources[h].Credentials THEN 1 ELSE 0
        /\ (pc[g] # "idle" /\ atEntry[g] # NoChart) =>
              Count(trace'[g], "creds") = 0]_vars

\* The holder of a source with a credentials provider was loaded by one
\* attempt, the provider invoked in it, and every call the bound allows has
\* been made; one that came after the load has returned without invoking it.
C25_Witness ==
    /\ sources[1].Credentials
    /\ chart[1] # NoChart
    /\ stats[1].ok = 1
    /\ callsMade = MaxLoadCalls
    /\ \E g \in Goroutines :
          /\ pc[g] = "done"
          /\ atEntry[g] # NoChart
          /\ Count(trace[g], "creds") = 0
    /\ \E g \in Goroutines :
          /\ pc[g] = "done"
          /\ Count(trace[g], "creds") = 1
          /\ ret[g].chart = chart[1]

\* C26: the loaded chart is shared read-only. Once a holder has its chart, no
\* step of a Process call replaces the chart or writes to the chart object,
\* for a source with dependency processing as for any other.
C26_LoadedChartIsReadOnly ==
    [][\A i \in DOMAIN sources :
        chart[i] # NoChart =>
            /\ chart'[i] = chart[i]
            /\ stats'[i].written = stats[i].written]_vars

\* C28: the sweep and the lookup of a call are one step on the cache. From a
\* call's sweep to its lookup nothing happens to the cache, no store, no
\* sweep and no expiry, and the lookup, when it finds an entry, finds one
\* that has not expired.
C28_SweepAndLookupAreAtomic ==
    [][\A g \in Callers :
        /\ (pc[g] = "cache.Get" /\ pc'[g] = "cache.Get") => cache' = cache
        /\ (pc[g] = "cache.Get" /\ pc'[g] = "pipeline.Apply") =>
              \E e \in Live(CurrentKey(g)) : proc'[g].objects = e.value]_vars

\* The object as it was decoded, before any annotation was added.
Decoded(o) == Object(o.src, o.file, o.doc)
\* The object carries the three source annotations, and the annotations it
\* was decoded with.
Annotated(o) ==
    /\ o.ann.type = "helm"
    /\ o.ann.path = sources[o.src].Chart
    /\ o.ann.file = o.file
    /\ o.ann.other = Decoded(o).ann.other

\* C29: with source annotations enabled, every object processSingle gives
\* for a source, rendered or taken from the cache, from the declared CRDs or
\* from a template, carries the type "helm", the chart of the source as the
\* path and the name of the output it was decoded from as the file, and
\* keeps the annotations it had; so does every object Process returns.
\* With the option disabled the annotations of an object are the ones it
\* was decoded with.
C29_SourceAnnotationsOnEveryObject ==
    \A g \in Callers :
        LET given == IF pc[g] = "pipeline.Apply" THEN proc[g].objects ELSE <<>>
            returned == IF ProcessReturned(g) /\ ~out[g].mutated
                        THEN out[g].objects ELSE <<>>
        IN /\ \A k \in DOMAIN given : given[k].src = proc[g].i
           /\ \A k \in DOMAIN given :
                 IF opts.SourceAnnotations THEN Annotated(given[k])
                 ELSE given[k].ann = Decoded(given[k]).ann
           /\ \A k \in DOMAIN returned :
                 IF opts.SourceAnnotations THEN Annotated(returned[k])
                 ELSE returned[k].ann = Decoded(returned[k]).ann

\* With source annotations enabled a source is served from the cache: a
\* CRD object, a template object and one that had annotations of its own, all
\* with the three annotations.
C29_Witness ==
    \E g \in Callers :
        /\ opts.SourceAnnotations
        /\ pc[g] = "pipeline.Apply"
        /\ proc[g].i \in proc[g].hits
        /\ \E k \in DOMAIN proc[g].objects :
              proc[g].objects[k].file = "crd" /\ Annotated(proc[g].objects[k])
        /\ \E k \in DOMAIN proc[g].objects :
              /\ proc[g].objects[k].file = "a.yaml"
              /\ proc[g].objects[k].ann.other
              /\ proc[g].objects[k].ann.file = "a.yaml"
              /\ Annotated(proc[g].objects[k])

\* The objects decoded from the declared CRDs come before all others.
IsCRD(o) == o.file = "crd"
CRDsFirst(objects) ==
    \A j, k \in DOMAIN objects :
        (j < k /\ IsCRD(objects[k])) => IsCRD(objects[j])

\* C30: the result processSingle builds for a source on a cache miss has
\* every object of the declared CRDs before every object of the rendered
\* templates, and is stored so; a cache hit gives the objects of an entry in
\* the order they were stored in.
C30_CRDsBeforeTemplates ==
    [][\A g \in Callers :
        /\ ( /\ pc[g] = "processRenderedTemplates"
             /\ pc'[g] \in {"cache.Set", "pipeline.Apply"} ) =>
              CRDsFirst(proc'[g].objects)
        /\ (pc[g] = "cache.Set" /\ pc'[g] = "pipeline.Apply") =>
              \E e \in cache' :
                  e.key = CurrentKey(g) /\ e.value = proc[g].objects
        /\ \A e \in cache' : CRDsFirst(e.value)
        /\ (pc[g] = "cache.Get" /\ pc'[g] = "pipeline.Apply") =>
              /\ \E e \in cache : proc'[g].objects = e.value
              /\ CRDsFirst(proc'[g].objects)]_vars

\* A source with a declared CRD and two YAML outputs is served from the
\* cache, the CRD object first.
C30_Witness ==
    \E g \in Callers :
        /\ pc[g] = "pipeline.Apply"
        /\ proc[g].i \in proc[g].hits
        /\ Len(proc[g].objects) >= 3
        /\ IsCRD(proc[g].objects[1])
        /\ ~IsCRD(proc[g].objects[Len(proc[g].objects)])
        /\ CRDsFirst(proc[g].objects)

\* No transformer has worked on the objects.
Untransformed(objects) == \A k \in DOMAIN objects : ~objects[k].lbl

AfterValuesPcs ==
    {"cache.Sync", "cache.Get", "ctx.Err", "Render", "processCRDs",
     "processRenderedTemplates", "cache.Set", "pipeline.Apply"}

\* C32: in a Process call, processValues runs once for each source whose
\* chart LoadChart returned, right after the load and before the sweep and
\* the lookup: the values are merged, the dependencies processed where the
\* source asks for it, and nothing between the lookup and the end of the
\* source's turn runs it again, the lookup hitting or missing. A hit goes
\* straight to the filters: it leaves out the render, the decoding of the
\* CRDs and of the templates, and the store.
C32_ValuesBeforeLookupOnce ==
    [][\A g \in Callers :
        /\ pc'[g] = "processValues" =>
              \/ pc[g] = "processValues"
              \/ /\ pc[g] = "done"
                 /\ ret[g].err = NoError
                 /\ proc[g].i \notin proc[g].valued
        /\ (pc'[g] \in AfterValuesPcs /\ pc[g] \notin AfterValuesPcs) =>
              /\ pc[g] = "processValues"
              /\ pc'[g] = IF opts.Cache THEN "cache.Sync" ELSE "ctx.Err"
              /\ proc[g].i \notin proc[g].valued
              /\ proc'[g].valued = proc[g].valued \cup {proc[g].i}
              /\ \E sv \in SourceValues :
                    proc'[g].renderValues.Values = DeepMerge(sv, proc[g].rtv)
              /\ sources[proc[g].i].ProcessDependencies =>
                    stats'[proc[g].i].written
        /\ pc[g] \in AfterValuesPcs =>
              /\ proc[g].i \in proc[g].valued
              /\ pc'[g] \in AfterValuesPcs \cup {"Process", "returned"}
              /\ pc'[g] # "returned" => proc'[g].valued \subseteq proc[g].valued
        /\ (pc[g] = "cache.Get" /\ pc'[g] = "pipeline.Apply") =>
              /\ proc'[g].rendered = proc[g].rendered
              /\ proc'[g].result = <<>>
              /\ cache' = cache]_vars

\* A source with a values provider, its values and dependencies processed
\* in this call, is served from the cache; so was, in the same call, not
\* rendered.
C32_Witness ==
    \E g \in Callers :
        /\ pc[g] = "pipeline.Apply"
        /\ proc[g].i = 2
        /\ proc[g].hits = {1, 2}
        /\ proc[g].valued = {1, 2}
        /\ proc[g].rendered = {}
        /\ stats[2].written

\* Where a call is between the sweep and the store of a source.
AfterSweepPcs ==
    {"cache.Get", "ctx.Err", "Render", "processCRDs", "processRenderedTemplates"}
\* The steps processSingle fails in after the lookup.
LateSteps == {"context", "render", "decode CRD", "decode"}
\* What the cache holds, whatever time has passed.
Content(entries) ==
    {[key |-> e.key, spec |-> e.spec, value |-> e.value] : e \in entries}

\* C34: from the sweep of a source to the failure of the source after the
\* lookup (context cancelled before the render, render error, CRD or template
\* that does not decode) no step of the call writes to the cache: the cache
\* holds after the failure what it held after the sweep.
C34_LateFailureWritesNothing ==
    [][\A g \in Callers :
        /\ (pc[g] \in AfterSweepPcs /\ pc'[g] # "cache.Set") =>
              Content(cache') = Content(cache)
        /\ (pc[g] \in AfterSweepPcs /\ pc'[g] = "returned") =>
              /\ cache' = cache
              /\ out'[g].err # NoError
              /\ out'[g].step \in LateSteps
        /\ (pc'[g] = "returned" /\ pc[g] # "returned"
            /\ out'[g].step \in LateSteps) => pc[g] \in AfterSweepPcs]_vars

\* With a cache, the second source has failed in the render after the first
\* was stored: the cache holds the entry of the first source and none of the
\* second.
C34_Witness ==
    \E g \in Callers :
        /\ ProcessFailed(g)
        /\ opts.Cache
        /\ out[g].step = "render"
        /\ out[g].at = 2
        /\ cache # {}
        /\ \A e \in cache : e.spec.Chart = sources[1].Chart

\* The entries stored for source j.
EntriesOf(entries, j) ==
    {e \in Content(entries) : e.spec.Chart = sources[j].Chart}

\* C35: a Process call works on one source at a time and ends at the first
\* that fails. While it is at source i no later source is touched: the
\* holder of j > i keeps its chart and its lock, no load is attempted on it
\* and no credentials asked for, its values are not processed, it is not
\* rendered or looked up, and nothing is stored for it (the sweep made for
\* source i evicts what has expired, of whichever source). The step that
\* fails ends the call at that source, and a call that has returned does
\* nothing.
C35_LaterSourcesUntouched ==
    [][\A g \in Callers :
        /\ pc[g] \notin {"idle", "returned"} =>
              \A j \in DOMAIN sources :
                  j > proc[g].i =>
                      /\ chart'[j] = chart[j]
                      /\ mu'[j] = mu[j]
                      /\ stats'[j] = stats[j]
                      /\ target'[g] # j
                      /\ j \notin proc'[g].valued \cup proc'[g].rendered
                                  \cup proc'[g].hits
                      /\ EntriesOf(cache', j) \subseteq EntriesOf(cache, j)
        /\ (out[g].err = NoError /\ out'[g].err # NoError) =>
              /\ pc'[g] = "returned"
              /\ out'[g].at = proc[g].i
              /\ proc'[g] = NoProc
        /\ pc[g] = "returned" =>
              /\ pc'[g] \in {"returned", "idle"}
              /\ chart' = chart
              /\ mu' = mu
              /\ stats' = stats
              /\ Content(cache') = Content(cache)]_vars

\* The first call has failed at the first source in the last step, the
\* filters, its chart loaded and its result stored: the second source's
\* holder is as New left it and the cache holds nothing of it.
C35_Witness ==
    \E g \in Callers :
        /\ ProcessFailed(g)
        /\ processCalls = 1
        /\ out[g].at = 1
        /\ out[g].step = "pipeline"
        /\ chart[1] # NoChart
        /\ EntriesOf(cache, 1) # {}
        /\ chart[2] = NoChart
        /\ stats[2] = NoStats
        /\ mu[2] = Unlocked
        /\ EntriesOf(cache, 2) = {}

\* The call in progress follows a call that failed: of two calls, the first
\* did not succeed.
AfterFailedCall ==
    prev.keep /\ ~prev.set /\ processCalls = MaxProcessCalls
\* Caller g's call fails in this step.
FailsNow(g) ==
    pc[g] # "returned" /\ pc'[g] = "returned" /\ out'[g].err # NoError
\* Caller g's call gets the files of its source from the render in this step.
RendersNow(g) == pc[g] = "Render" /\ pc'[g] = "processCRDs"
\* The entries of source i that have not expired.
LiveOf(i) == {e \in cache : ~e.expired /\ e.spec.Chart = sources[i].Chart}

\* C36 as stated: nothing a failed call loaded or stored is taken back, and
\* the call after it renders no source an entry of which is in the cache and
\* has not expired.
C36_NextCallRedoesNothing ==
    [][\A g \in Callers :
        /\ FailsNow(g) => chart' = chart /\ cache' = cache
        /\ \A i \in DOMAIN sources :
              chart[i] # NoChart =>
                  chart'[i] = chart[i] /\ stats'[i].attempts = stats[i].attempts
        /\ (AfterFailedCall /\ RendersNow(g)) => LiveOf(proc[g].i) = {}]_vars

\* C36: a failed Process call is not rolled back. The step that fails, the
\* filters' included, leaves every holder and the cache as they are; a loaded
\* holder stays loaded and is never loaded again; an entry that has not
\* expired stays until one of its key replaces it; so the call after a
\* failed one renders no source for whose key, as that call derives it, an
\* entry is in the cache and has not expired.
C36_FailedCallIsNotRolledBack ==
    [][\A g \in Callers :
        /\ FailsNow(g) => chart' = chart /\ cache' = cache
        /\ \A i \in DOMAIN sources :
              chart[i] # NoChart =>
                  chart'[i] = chart[i] /\ stats'[i].attempts = stats[i].attempts
        /\ \A e \in cache :
              ~e.expired =>
                  \E e2 \in cache' :
                      /\ e2.key = e.key
                      /\ e2.value = e.value \/ pc[g] = "cache.Set"
        /\ (AfterFailedCall /\ RendersNow(g)) => Live(CurrentKey(g)) = {}]_vars

\* The call after a failed one is served the first source from the cache:
\* the holder was loaded once, by the failed call, and nothing is rendered.
C36_Witness ==
    \E g \in Callers :
        /\ AfterFailedCall
        /\ pc[g] = "pipeline.Apply"
        /\ proc[g].i = 1
        /\ proc[g].hits = {1}
        /\ proc[g].rendered = {}
        /\ stats[1].attempts = 1
        /\ stats[1].ok = 1

\* The errors of a context.
ContextErrors == {Canceled, DeadlineExceeded}

\* C37: cancellation is observed at the two checkpoints only. A call fails
\* with the context's error only at the check before the render, which a
\* source served from the cache does not come to, or out of a LoadChart that
\* found the holder not loaded; a LoadChart on a loaded holder returns the
\* chart whatever the context says, and so does a lookup that hits. A call
\* whose context is cancelled therefore returns the objects and no error
\* when every holder is loaded and every lookup hits.
C37_CancellationOnlyAtCheckpoints ==
    [][\A g \in Callers :
        /\ (FailsNow(g) /\ out'[g].cause \in ContextErrors) =>
              /\ out'[g].cause = ctxErr[g]
              /\ \/ /\ pc[g] = "ctx.Err"
                    /\ proc[g].i \notin proc[g].hits
                 \/ /\ pc[g] = "done"
                    /\ atEntry[g] = NoChart
                    /\ chart[proc[g].i] = NoChart
        /\ (pc[g] # "done" /\ pc'[g] = "done" /\ chart[target[g]] # NoChart) =>
              ret'[g] = [chart |-> chart[target[g]], err |-> NoError]
        /\ (pc[g] = "cache.Get" /\ pc'[g] # "cache.Get" /\ ctxErr[g] # NoError) =>
              /\ pc'[g] \in {"pipeline.Apply", "ctx.Err"}
              /\ Live(CurrentKey(g)) # {} => pc'[g] = "pipeline.Apply"]_vars

\* A second call, its context cancelled, has returned the objects and no
\* error: every holder was loaded by the first call and every source was
\* served from the cache.
C37_Witness ==
    \E g \in Callers :
        /\ ProcessReturned(g)
        /\ ctxErr[g] \in ContextErrors
        /\ out[g].err = NoError
        /\ out[g].objects # <<>>
        /\ out[g].hits = DOMAIN sources
        /\ out[g].rendered = {}
        /\ \A i \in DOMAIN sources : stats[i].attempts = 1 /\ stats[i].ok = 1

(***************************************************************************)
(* LoadChart with the goroutines scheduled (SpecLoadLive): a goroutine     *)
(* that can take its next step takes it, the collaborators return, and a   *)
(* goroutine waiting for the mutex gets it if it is free again and again:  *)
(* sync.RWMutex lets no reader in past a waiting writer and hands a        *)
(* starving waiter the lock.                                               *)
(***************************************************************************)
\* The steps of goroutine g inside LoadChart that wait for nothing.
LoadStep(g) ==
    \/ FastPath(g)
    \/ DoubleCheck(g)
    \/ CtxCheck(g)
    \/ CreateChartPathOptions(g)
    \/ LocateChart(g)
    \/ Load(g)

LoadFairness ==
    \A g \in Goroutines :
        /\ WF_vars(LoadStep(g))
        /\ SF_vars(RLock(g))
        /\ SF_vars(Lock(g))

SpecLoadLive == InitLoad /\ [][NextLoad]_vars /\ LoadFairness

\* Goroutine g is inside LoadChart.
InLoadChart(g) == pc[g] \notin {"idle", "done"}
\* Goroutine g holds nothing of any holder's mutex.
HoldsNoLock(g) ==
    \A h \in Holders : mu[h].writer # g /\ g \notin mu[h].readers

\* C39: every LoadChart call returns. A goroutine outside LoadChart holds
\* neither lock of the holder, whichever way the call returned; it holds no
\* read lock when it asks for the write lock; and a goroutine inside
\* LoadChart, the collaborators returning, comes to the return.
C39_LoadChartReturns ==
    /\ [](\A g \in Goroutines :
            /\ ~InLoadChart(g) => HoldsNoLock(g)
            /\ pc[g] = "Lock" => HoldsNoLock(g))
    /\ \A g \in Goroutines : InLoadChart(g) ~> (pc[g] = "done")

\* Two calls on the holder have returned, the first with the error of the
\* load collaborator, the second, which had to wait for the lock and load
\* again, with the chart; the mutex is free.
C39_Witness ==
    /\ pc[1] = "done"
    /\ pc[2] = "done"
    /\ ErrorsIs(ret[1].err, ErrLoad)
    /\ ret[2].err = NoError
    /\ ret[2].chart # NoChart
    /\ "load" \in {trace[2][k] : k \in DOMAIN trace[2]}
    /\ mu[1] = Unlocked

(***************************************************************************)
(* LoadChart on the holders of two sources (SpecLoadPair).                 *)
(***************************************************************************)
LoadHolderPair == {1, 2}
InitLoadPair ==
    /\ \E creds \in [LoadHolderPair -> BOOLEAN] :
        sources = [i \in LoadHolderPair |-> LoadSource(i, creds[i])]
    /\ chart = [i \in LoadHolderPair |-> NoChart]
    /\ heap = 0
    /\ mu = [i \in LoadHolderPair |-> Unlocked]
    /\ pc = [g \in Goroutines |-> "idle"]
    /\ target = [g \in Goroutines |-> 1]
    /\ ctxErr = [g \in Goroutines |-> NoError]
    /\ ret = [g \in Goroutines |-> NoRet]
    /\ trace = [g \in Goroutines |-> <<>>]
    /\ atEntry = [g \in Goroutines |-> NoChart]
    /\ stats = [i \in LoadHolderPair |-> NoStats]
    /\ callsMade = 0
    /\ inputs = <<>>
    /\ ctor = NoCtor
    /\ calc = NoCalc
    /\ NoProcess

SpecLoadPair == InitLoadPair /\ [][NextLoad]_vars

\* The steps of a call made under the holder's write lock, and the ones made
\* under its read lock.
WriterPcs == {"DoubleCheck", "CtxCheck", "ChartPathOptions", "LocateChart", "Load"}
ReaderPcs == {"FastPath"}
\* No other call is inside LoadChart on the holder of g's call.
AloneOnHolder(g) ==
    \A o \in Goroutines \ {g} :
        target[o] = target[g] => pc[o] \notin WriterPcs \cup ReaderPcs

\* C27: loading is mutually exclusive per holder and independent across
\* holders. No two calls are in the section under the write lock of one
\* holder, the credentials, locate and load steps among it; the lock of a
\* holder is held by the calls inside LoadChart on that holder and by no
\* other, so that a call waits for a lock only while another call is inside
\* LoadChart on the same holder, whatever goes on on other holders.
C27_LoadExclusivePerHolderOnly ==
    /\ \A g, o \in Goroutines :
          (g # o /\ target[g] = target[o]) =>
              ~(pc[g] \in WriterPcs /\ pc[o] \in WriterPcs)
    /\ \A h \in Holders :
          /\ mu[h].writer # NoGoroutine =>
                (target[mu[h].writer] = h /\ pc[mu[h].writer] \in WriterPcs)
          /\ \A r \in mu[h].readers : target[r] = h /\ pc[r] \in ReaderPcs
    /\ \A g \in Goroutines :
          AloneOnHolder(g) =>
              /\ pc[g] = "RLock" => CanRLock(mu[target[g]])
              /\ pc[g] = "Lock" => CanLock(mu[target[g]])

\* Two calls are in the load step at once, each on its holder.
C27_Witness ==
    \E g, o \in Goroutines :
        /\ target[g] = 1 /\ pc[g] = "Load"
        /\ target[o] = 2 /\ pc[o] = "Load"
        /\ mu[1].writer = g
        /\ mu[2].writer = o

(***************************************************************************)
(* Concurrent Process calls on one renderer (SpecShared): every goroutine  *)
(* makes one call on a renderer of one source with a cache and the fast    *)
(* key, so that the calls derive the same key whatever their values. No    *)
(* context is cancelled and no entry expires while the calls run.          *)
(***************************************************************************)
SharedOptions == RendererWith(<<>>, <<>>, FALSE, CacheOptions(1, "fast"))

InitShared ==
    /\ sources = <<ProcSource(1)>>
    /\ chart = <<NoChart>>
    /\ heap = 0
    /\ mu = <<Unlocked>>
    /\ pc = [g \in Goroutines |-> "idle"]
    /\ target = [g \in Goroutines |-> 1]
    /\ ctxErr = [g \in Goroutines |-> NoError]
    /\ ret = [g \in Goroutines |-> NoRet]
    /\ trace = [g \in Goroutines |-> <<>>]
    /\ atEntry = [g \in Goroutines |-> NoChart]
    /\ stats = <<NoStats>>
    /\ callsMade = 0
    /\ inputs = <<>>
    /\ ctor = NoCtor
    /\ calc = NoCalc
    /\ opts = SharedOptions
    /\ repo \in {<<"">>, <<"one">>}
    /\ cache = {}
    /\ proc = [g \in Goroutines |-> NoProc]
    /\ out = [g \in Goroutines |-> NoOut]
    /\ prev = NoPrev
    /\ processCalls = 0

NextShared ==
    \E g \in Goroutines :
        \/ ProcessCall(g)
        \/ ProcessLoop(g)
        \/ RLock(g)
        \/ FastPath(g)
        \/ Lock(g)
        \/ DoubleCheck(g)
        \/ CtxCheck(g)
        \/ CreateChartPathOptions(g)
        \/ LocateChart(g)
        \/ Load(g)
        \/ AfterLoadChart(g)
        \/ ProcessValues(g)
        \/ CacheSync(g)
        \/ CacheGet(g)
        \/ RenderCtxCheck(g)
        \/ Render(g)
        \/ ProcessCRDs(g)
        \/ ProcessRenderedTemplates(g)
        \/ CacheSet(g)
        \/ Apply(g)

SpecShared == InitShared /\ [][NextShared]_vars

\* The results processSingle can build for source i: the objects of the CRDs
\* and of every YAML output of one render, in one of the orders of the range.
CompleteResults(i) ==
    { addSourceAnnotations(DecodeYAML(i, "crd", repo[i]), sources[i].Chart, "crd")
        \o TemplatesFrom(order, 1, i, <<>>).objects :
      order \in UNION {MapRange(files) :
                        files \in {fs \in RenderOutputs :
                                     \A f \in fs : Decodes(f.text)}} }
\* Caller g's call has returned objects and no error.
ProcessSucceeded(g) == ProcessReturned(g) /\ out[g].err = NoError
\* The callers whose call the render collaborator was invoked in.
Renderers == {g \in Goroutines : 1 \in out[g].rendered}

\* What holds of the cache and of the calls that have returned.
SharedCacheSound ==
    /\ \A e1, e2 \in cache : e1.key = e2.key => e1 = e2
    /\ \A e \in cache : e.value \in CompleteResults(1)
    /\ \A g \in Goroutines :
          ProcessSucceeded(g) =>
              /\ out[g].objects \in CompleteResults(1)
              /\ (1 \in out[g].hits) # (1 \in out[g].rendered)
    /\ (\A g \in Goroutines : ProcessSucceeded(g)) =>
          /\ Cardinality(Renderers) \in 1..NumGoroutines
          /\ Cardinality(cache) = 1
          /\ \E g \in Renderers : \E e \in cache : e.value = out[g].objects

\* C38: concurrent Process calls that derive the same key do not share a
\* render. The lookup and the store are steps of their own, other calls'
\* steps between them: of K calls started on an empty cache between 1 and K
\* render; every store replaces the entry of the key by the storing call's
\* result, so that the cache holds one entry per key, the one stored last;
\* every call that succeeds returns the whole result of one render, its own
\* or the one it found stored.
C38_RenderNotCoalesced ==
    [][/\ SharedCacheSound'
       /\ \A g \in Goroutines :
            /\ (pc[g] = "cache.Set" /\ pc'[g] # "cache.Set") =>
                  {e.value : e \in {x \in cache' : x.key = CurrentKey(g)}}
                      = {proc[g].result}
            /\ (pc[g] = "cache.Get" /\ pc'[g] = "ctx.Err") =>
                  \A e \in cache : e.key # CurrentKey(g)]_vars

\* Both calls have rendered, each with another outcome, and returned what
\* they rendered; the cache holds the one entry of the call that stored last.
C38_Witness ==
    /\ \A g \in Goroutines : ProcessSucceeded(g)
    /\ Renderers = Goroutines
    /\ out[1].objects # out[2].objects
    /\ Cardinality(cache) = 1
    /\ \E e \in cache : e.value = out[1].objects

(***************************************************************************)
(* New's option loop on its own (SpecOptions): for _, opt := range opts    *)
(* { opt.ApplyTo(&rendererOpts) }. An option is one of the With functions  *)
(* or a RendererOptions value.                                             *)
(***************************************************************************)
MaxOptions == 3

\* rendererOpts := RendererOptions{Filters: make(..., 0), Transformers: make(..., 0)}
EmptyRendererOptions ==
    [Filters |-> <<>>, Transformers |-> <<>>, SourceAnnotations |-> FALSE,
     CacheOptions |-> NoCacheOptions]

\* cache.Options.ApplyTo(target): the fields the options set go to the target.
CacheOptionsApplyTo(co, dst) ==
    [set |-> TRUE,
     TTL |-> IF co.TTL # 0 THEN co.TTL ELSE dst.TTL,
     KeyFunc |-> IF co.KeyFunc # "nil" THEN co.KeyFunc ELSE dst.KeyFunc]

\* opts.Filters = append(opts.Filters, f)
WithFilter(f, dst) == [dst EXCEPT !.Filters = Append(@, f)]
\* opts.Transformers = append(opts.Transformers, t)
WithTransformer(t, dst) == [dst EXCEPT !.Transformers = Append(@, t)]
\* opts.SourceAnnotations = enabled
WithSourceAnnotations(enabled, dst) ==
    [dst EXCEPT !.SourceAnnotations = enabled]
\* if rendererOpts.CacheOptions == nil { rendererOpts.CacheOptions =
\* &cache.Options{} }; for _, opt := range opts { opt.ApplyTo(...) }
WithCache(co, dst) ==
    [dst EXCEPT !.CacheOptions =
        CacheOptionsApplyTo(co, IF @.set THEN @ ELSE CacheOptions(0, "nil"))]
\* RendererOptions.ApplyTo: target.Filters = opts.Filters;
\* target.Transformers = opts.Transformers; the cache options when there are
\* some; target.SourceAnnotations = opts.SourceAnnotations
ApplyTo(ro, dst) ==
    [Filters |-> ro.Filters,
     Transformers |-> ro.Transformers,
     SourceAnnotations |-> ro.SourceAnnotations,
     CacheOptions |->
        IF ro.CacheOptions.set
        THEN CacheOptionsApplyTo(ro.CacheOptions,
                 IF dst.CacheOptions.set THEN dst.CacheOptions
                 ELSE CacheOptions(0, "nil"))
        ELSE dst.CacheOptions]

\* The options of the model. Every option has all the fields, those its kind
\* does not use at their zero values.
Option(kind, name, enabled, co, ro) ==
    [kind |-> kind, name |-> name, enabled |-> enabled, co |-> co, ro |-> ro]
OptionValues ==
    {[EmptyRendererOptions EXCEPT !.SourceAnnotations = TRUE],
     [EmptyRendererOptions EXCEPT !.Filters = <<"firstDoc">>,
                                  !.CacheOptions = CacheOptions(0, "fast")]}
Options ==
    {Option("WithFilter", f, FALSE, NoCacheOptions, EmptyRendererOptions) :
        f \in {"firstDoc", "all"}}
    \cup {Option("WithTransformer", "label", FALSE, NoCacheOptions,
                 EmptyRendererOptions)}
    \cup {Option("WithSourceAnnotations", "", b, NoCacheOptions,
                 EmptyRendererOptions) : b \in BOOLEAN}
    \cup {Option("WithCache", "", FALSE, co, EmptyRendererOptions) :
            co \in {CacheOptions(0, "nil"), CacheOptions(1, "fast")}}
    \cup {Option("RendererOptions", "", FALSE, NoCacheOptions, ro) :
            ro \in OptionValues}
OptionLists ==
    UNION {[1..n -> Options] : n \in 0..MaxOptions}

InitOptions ==
    /\ \E os \in OptionLists :
          calc = [fn |-> "New", pc |-> "apply", opts |-> os, i |-> 1,
                  rendererOpts |-> EmptyRendererOptions, r |-> NoOpts]
    /\ inputs = <<>>
    /\ ctor = NoCtor
    /\ sources = <<>>
    /\ chart = <<>>
    /\ heap = 0
    /\ mu = <<>>
    /\ pc = [g \in Goroutines |-> "idle"]
    /\ target = [g \in Goroutines |-> 1]
    /\ ctxErr = [g \in Goroutines |-> NoError]
    /\ ret = [g \in Goroutines |-> NoRet]
    /\ trace = [g \in Goroutines |-> <<>>]
    /\ atEntry = [g \in Goroutines |-> NoChart]
    /\ stats = <<>>
    /\ callsMade = 0
    /\ NoProcess

\* The option the loop is at is of the kind.
NextOption(kind) ==
    /\ calc.pc = "apply"
    /\ calc.i <= Len(calc.opts)
    /\ calc.opts[calc.i].kind = kind
Applied(rendererOpts) ==
    /\ calc' = [calc EXCEPT !.i = @ + 1, !.rendererOpts = rendererOpts]
    /\ UNCHANGED notCalc

ApplyWithFilter ==
    /\ NextOption("WithFilter")
    /\ Applied(WithFilter(calc.opts[calc.i].name, calc.rendererOpts))
ApplyWithTransformer ==
    /\ NextOption("WithTransformer")
    /\ Applied(WithTransformer(calc.opts[calc.i].name, calc.rendererOpts))
ApplyWithSourceAnnotations ==
    /\ NextOption("WithSourceAnnotations")
    /\ Applied(WithSourceAnnotations(calc.opts[calc.i].enabled, calc.rendererOpts))
ApplyWithCache ==
    /\ NextOption("WithCache")
    /\ Applied(WithCache(calc.opts[calc.i].co, calc.rendererOpts))
ApplyRendererOptions ==
    /\ NextOption("RendererOptions")
    /\ Applied(ApplyTo(calc.opts[calc.i].ro, calc.rendererOpts))
\* r := &Renderer{..., opts: rendererOpts, cache: newCache(rendererOpts.CacheOptions)}
NewWithOptions ==
    /\ calc.pc = "apply"
    /\ calc.i > Len(calc.opts)
    /\ calc' = [calc EXCEPT
          !.pc = "returned",
          !.r = RendererWith(calc.rendererOpts.Filters,
                             calc.rendererOpts.Transformers,
                             calc.rendererOpts.SourceAnnotations,
                             calc.rendererOpts.CacheOptions)]
    /\ UNCHANGED notCalc

NextOptions ==
    \/ ApplyWithFilter
    \/ ApplyWithTransformer
    \/ ApplyWithSourceAnnotations
    \/ ApplyWithCache
    \/ ApplyRendererOptions
    \/ NewWithOptions

SpecOptions == InitOptions /\ [][NextOptions]_vars

\* What an option contributes to the filters and to the transformers.
FiltersOf(o) ==
    IF o.kind = "WithFilter" THEN <<o.name>>
    ELSE IF o.kind = "RendererOptions" THEN o.ro.Filters ELSE <<>>
TransformersOf(o) ==
    IF o.kind = "WithTransformer" THEN <<o.name>>
    ELSE IF o.kind = "RendererOptions" THEN o.ro.Transformers ELSE <<>>
RECURSIVE AllFilters(_)
AllFilters(os) ==
    IF os = <<>> THEN <<>>
    ELSE AllFilters(SubSeq(os, 1, Len(os) - 1)) \o FiltersOf(os[Len(os)])
RECURSIVE AllTransformers(_)
AllTransformers(os) ==
    IF os = <<>> THEN <<>>
    ELSE AllTransformers(SubSeq(os, 1, Len(os) - 1)) \o TransformersOf(os[Len(os)])
\* The options that assign the source annotations flag.
SetsAnnotations(o) == o.kind \in {"WithSourceAnnotations", "RendererOptions"}
AnnotationsOf(o) ==
    IF o.kind = "RendererOptions" THEN o.ro.SourceAnnotations ELSE o.enabled
\* New has returned the renderer.
OptionsApplied == calc.fn = "New" /\ calc.pc = "returned"

\* C24: the options are applied in the order given. The filters of the
\* renderer are the filters each option contributes, in that order, and so are
\* its transformers: no option removes what an earlier one added. The source
\* annotations flag is the one of the last option that assigns it.
C24_OptionsAccumulateInOrder ==
    OptionsApplied =>
        /\ calc.r.Filters = AllFilters(calc.opts)
        /\ calc.r.Transformers = AllTransformers(calc.opts)
        /\ \A n \in DOMAIN calc.opts :
              ( /\ SetsAnnotations(calc.opts[n])
                /\ \A m \in DOMAIN calc.opts :
                      m > n => ~SetsAnnotations(calc.opts[m]) )
              => calc.r.SourceAnnotations = AnnotationsOf(calc.opts[n])
====
